---- MODULE Spec2Model ----
(***************************************************************************)
(* The IoT server of servidor_iot.py: one handler thread per accepted      *)
(* connection (handle_client), the header router, the file-transfer loop   *)
(* with its checksum verdict, and the device registry with its snapshot    *)
(* file.  Handlers of different connections interleave at every access to  *)
(* shared state (files on disk, the registry dict, the snapshot file).     *)
(***************************************************************************)
EXTENDS Integers, Sequences, FiniteSets, TLC

VARIABLES
    pc,              \* per connection: where its handler thread is
    header,          \* per connection: the header text _recv_header returned
    out,             \* per connection: the tokens the server sent, in order
    stream,          \* per connection: body bytes the peer still delivers before it closes
    total_received,  \* per connection: the handler's byte counter
    delivered,       \* per connection: the body bytes conn.recv handed to the handler
    wbuf,            \* per connection: bytes written to the file object, not yet flushed
    exc,             \* per connection: TRUE when the handler's outer except clause ran
    files,           \* the file system: path -> content, for every regular file
    launched,        \* serials a remote-session thread was started for
    iot_devices,     \* the in-memory registry dict: its items, in insertion order
    devices_file,    \* content of iot_devices.json, as a sequence of JSON tokens
    savebuf,         \* per connection: snapshot text json.dump wrote, not yet flushed
    clock,           \* time.time(), in hundredths of a second
    last_seen,       \* per connection: the time.time() evaluated for its record
    dump_iter,       \* per connection: the dict size its json.dump iterates over
    accepted,        \* connections server.accept() has returned so far
    sensor_file,     \* content of datos_sensores.json, as a sequence of JSON tokens
    sensor_data,     \* per connection: the local dict data of save_sensor_data
    stalled,         \* per connection: the peer sends no more and does not close
    hook,            \* what importing and running the session hook does
    snapshot_writable, \* open(IOT_DEVICES_FILE, "w") succeeds
    subscribers,     \* event manager: event type -> list of callbacks
    running,         \* event manager: _running
    last_heartbeat,  \* event manager: the items <<device id, time>> of _last_heartbeat
    datetime_now,    \* the last value datetime.now() returned
    emission,        \* per emitter: the emit_event coroutine it awaits
    monitor,         \* per monitor task: where _heartbeat_monitor is
    pub_running,     \* IoTPublisher: _running
    published,       \* IoTPublisher: the topics of published, in order
    pub_pc,          \* IoTPublisher: where its start() or stop() is
    header_read      \* _recv_header on one connection: its loop and len(header_data)

vars == <<pc, header, out, stream, total_received, delivered, wbuf, exc, files,
          launched, iot_devices, devices_file, savebuf, clock, last_seen, dump_iter,
          accepted, sensor_file, sensor_data, stalled, hook, snapshot_writable,
          subscribers, running, last_heartbeat, datetime_now, emission, monitor,
          pub_running, published, pub_pc, header_read>>

----------------------------------------------------------------------------
(* Bounds of the model. *)

\* Longest body a peer sends on one connection.
MaxBody == 2
\* Largest value of the clock, in hundredths of a second.
MaxClock == 1
\* Connections the server accepts in one run.
MaxConnections == 3

\* Handler threads that can run at the same time.
Conns == {"c1", "c2"}
\* Byte values.
Bytes == {0, 1}

\* The peer address server.accept() returns for a connection: addr[0].
PeerIp(c) == IF c = "c1" THEN "10.0.0.1" ELSE "10.0.0.2"

----------------------------------------------------------------------------
(* Program constants. *)

BUFFER_SIZE == 4096

\* DEST_DIR, as path components below the file-system root.
DEST_DIR == <<"srv", "archivos_recibidos">>

\* The directories that exist; os.makedirs(DEST_DIR) ran at import.
Dirs == {<<>>, <<"srv">>, DEST_DIR, <<"tmp">>}

----------------------------------------------------------------------------
(* JSON values.  Every value has the same three fields, so that any two    *)
(* can be compared: t is the type, s the text of a string, n the number.    *)

JAbsent == [t |-> "absent", s |-> "", n |-> 0]   \* the key is not in the dict
JNull == [t |-> "null", s |-> "", n |-> 0]
JList == [t |-> "list", s |-> "", n |-> 0]       \* the empty JSON array [] (unhashable)
JStr(x) == [t |-> "str", s |-> x, n |-> 0]
JInt(i) == [t |-> "int", s |-> "", n |-> i]
\* A float, given in tenths: JFloat10(15) is 1.5.
JFloat10(i) == [t |-> "float", s |-> "", n |-> i]
\* float("nan"): what json.loads makes of the constant NaN.
JNaN == [t |-> "nan", s |-> "", n |-> 0]

\* header.get(key, default) on a field of the header dict.
Get(v, default) == IF v.t = "absent" THEN default ELSE v

\* key in header
Has(v) == v.t # "absent"

----------------------------------------------------------------------------
(* Pure functions of the handler. *)

Min(a, b) == IF a < b THEN a ELSE b

\* str.lower() on the header texts of the model.
Lower(w) ==
    CASE w = "PING" -> "ping"
      [] w = "PiNg" -> "ping"
      [] OTHER -> w

\* int(x) of a string, for the strings of the model; ok is FALSE for ValueError.
IntOfStr(x) ==
    CASE x = "0" -> [ok |-> TRUE, val |-> 0]
      [] x = "1" -> [ok |-> TRUE, val |-> 1]
      [] x = "2" -> [ok |-> TRUE, val |-> 2]
      [] OTHER -> [ok |-> FALSE, val |-> 0]

\* int(header["size"]): an int is itself, a float is truncated toward zero, a
\* numeric string is parsed; anything else raises (ok is FALSE).
PyInt(v) ==
    CASE v.t = "int" -> [ok |-> TRUE, val |-> v.n]
      [] v.t = "float" ->
           [ok |-> TRUE,
            val |-> IF v.n >= 0 THEN v.n \div 10 ELSE 0 - ((0 - v.n) \div 10)]
      [] v.t = "str" -> IntOfStr(v.s)
      [] OTHER -> [ok |-> FALSE, val |-> 0]

\* A file name split at "/": abs is TRUE for a name that starts with "/".
SplitPath(x) ==
    CASE x = "a.bin" -> [abs |-> FALSE, parts |-> <<"a.bin">>]
      [] x = "b.bin" -> [abs |-> FALSE, parts |-> <<"b.bin">>]
      [] x = "../a.bin" -> [abs |-> FALSE, parts |-> <<"..", "a.bin">>]
      [] x = "/tmp/a.bin" -> [abs |-> TRUE, parts |-> <<"tmp", "a.bin">>]
      [] x = "sub/a.bin" -> [abs |-> FALSE, parts |-> <<"sub", "a.bin">>]
      [] OTHER -> [abs |-> FALSE, parts |-> <<>>]

\* os.path.join(DEST_DIR, filename): an absolute second argument replaces the
\* first; a filename that is not a string raises TypeError (ok is FALSE).
OsPathJoin(dir, v) ==
    IF v.t # "str"
    THEN [ok |-> FALSE, parts |-> <<>>]
    ELSE LET p == SplitPath(v.s)
         IN  [ok |-> TRUE, parts |-> IF p.abs THEN p.parts ELSE dir \o p.parts]

\* The path the operating system resolves: ".." drops the component before it.
RECURSIVE Resolve(_)
Resolve(parts) ==
    IF parts = <<>>
    THEN <<>>
    ELSE LET front == Resolve(SubSeq(parts, 1, Len(parts) - 1))
             last == parts[Len(parts)]
         IN  IF last = ".."
             THEN IF front = <<>> THEN <<>> ELSE SubSeq(front, 1, Len(front) - 1)
             ELSE Append(front, last)

IsPrefix(a, b) == Len(a) <= Len(b) /\ SubSeq(b, 1, Len(a)) = a

\* The path lies below dir.
Inside(dir, path) == IsPrefix(dir, path) /\ Len(path) > Len(dir)

\* open(path, "wb") succeeds: the path is no directory and its parent is one.
CanOpenForWrite(path) ==
    /\ path \notin Dirs
    /\ path # <<>>
    /\ SubSeq(path, 1, Len(path) - 1) \in Dirs

\* hashlib.sha256 as a collision-free digest of a byte sequence.
RECURSIVE Sha256(_)
Sha256(b) ==
    IF b = <<>>
    THEN 0
    ELSE Sha256(SubSeq(b, 1, Len(b) - 1)) * 257 + b[Len(b)] + 1

\* .hexdigest(): the digest as a string value.
Hexdigest(b) == [t |-> "str", s |-> "hex", n |-> Sha256(b)]

\* A write of data at offset off: bytes beyond the end extend the file, and a
\* gap left by an earlier truncation reads as zero bytes.  An empty buffer is
\* not written at all, so the file keeps its length.
WriteAt(content, off, data) ==
    IF data = <<>>
    THEN content
    ELSE LET n == IF Len(content) > off + Len(data) THEN Len(content) ELSE off + Len(data)
         IN  [i \in 1..n |->
                 IF i > off /\ i <= off + Len(data) THEN data[i - off]
                 ELSE IF i <= Len(content) THEN content[i]
                 ELSE 0]

----------------------------------------------------------------------------
(* Header texts.  form is "none" when _recv_header returned None (the peer *)
(* closed without sending), "plain" for a text json.loads rejects (word is *)
(* the text) and "json" for a text json.loads decodes: to a dict when obj  *)
(* is TRUE (the fields below are its keys), to another value otherwise     *)
(* (word is the text).                                                      *)

\* A header that decodes to a JSON object with the given keys.
Obj(action, serial, device_type, payload, filename, size, checksum) ==
    [form |-> "json", word |-> "", obj |-> TRUE, action |-> action,
     serial |-> serial, device_type |-> device_type, payload |-> payload,
     filename |-> filename, size |-> size, checksum |-> checksum]

\* A header that is no JSON object: nothing, a plain text, or another JSON value.
Other(form, word) ==
    [form |-> form, word |-> word, obj |-> FALSE, action |-> JAbsent,
     serial |-> JAbsent, device_type |-> JAbsent, payload |-> JAbsent,
     filename |-> JAbsent, size |-> JAbsent, checksum |-> JAbsent]

\* The constants json.loads decodes to floats though JSON has no such value.
PyConstants == {"NaN", "Infinity", "-Infinity"}

\* json.loads(header_text) raises.  It does not for a text that holds one of
\* the constants NaN, Infinity and -Infinity, alone or as a value of an
\* object: such a text is decoded and routed like any JSON text.
JsonLoadsFails(h) == h.form = "plain"

\* isinstance(header, dict)
IsDict(h) == h.form = "json" /\ h.obj

\* all(k in header for k in ("filename", "size", "checksum"))
HasTransferKeys(h) == Has(h.filename) /\ Has(h.size) /\ Has(h.checksum)

\* The branch of handle_client a header text takes, in the order of the code.
Route(h) ==
    CASE h.form = "none" -> "empty"
      [] h.form = "plain" /\ Lower(h.word) = "ping" -> "ping_text"
      [] h.form = "plain" /\ Lower(h.word) # "ping" -> "invalid_header"
      [] IsDict(h) /\ h.action = JStr("ping") -> "ping_json"
      [] IsDict(h) /\ h.action = JStr("hello") -> "hello"
      [] IsDict(h) /\ h.action = JStr("data") -> "data"
      [] IsDict(h) /\ h.action = JStr("send_file") /\ ~HasTransferKeys(h) ->
           "incomplete_header"
      [] IsDict(h) /\ h.action = JStr("send_file") /\ HasTransferKeys(h) ->
           "send_file"
      [] IsDict(h)
           /\ h.action \notin {JStr("ping"), JStr("hello"), JStr("data"), JStr("send_file")}
           /\ HasTransferKeys(h) -> "legacy_send_file"
      [] OTHER -> "unknown_action"

\* The routes that go on to the Transfer Engine.
TransferRoutes == {"send_file", "legacy_send_file"}

\* size = int(header["size"])
DeclaredSize(h) == PyInt(h.size)

\* filepath = os.path.join(DEST_DIR, filename), as the path open() resolves.
FilePath(h) == Resolve(OsPathJoin(DEST_DIR, h.filename).parts)

\* serial = header.get("serial", "DESCONOCIDO")
SerialOf(h) == Get(h.serial, JStr("DESCONOCIDO"))

----------------------------------------------------------------------------
(* The requests peers send. *)

\* Every byte sequence of length at most n.
RECURSIVE SeqsUpTo(_)
SeqsUpTo(n) ==
    IF n = 0
    THEN {<<>>}
    ELSE LET shorter == SeqsUpTo(n - 1)
         IN  shorter \cup {Append(b, x) : b \in {q \in shorter : Len(q) = n - 1}, x \in Bytes}

\* The bodies a peer may deliver after the header, before it closes.
BodyStreams == SeqsUpTo(MaxBody)

\* The action field of a transfer header: explicit, absent (legacy), unrecognized.
SendFile == JStr("send_file")
TransferActions == {SendFile, JAbsent}

\* A header with the three transfer fields and no others.
Transfer(action, filename, size, checksum) ==
    Obj(action, JAbsent, JAbsent, JAbsent, filename, size, checksum)

\* Well-formed transfers to a.bin, of every size and declared checksum within the bounds.
CoreTransfers ==
    {Transfer(a, JStr("a.bin"), JInt(n), Hexdigest(b)) :
        a \in TransferActions, n \in {0, 1, 2}, b \in {<<>>, <<0>>, <<0, 1>>}}

\* Transfers whose filename leaves DEST_DIR, cannot be opened, or is no string.
FilenameTransfers ==
    {Transfer(a, f, JInt(1), Hexdigest(<<0>>)) :
        a \in TransferActions,
        f \in {JStr("../a.bin"), JStr("/tmp/a.bin"), JStr("sub/a.bin"), JStr(""), JInt(7)}}

\* Transfers whose size is not a non-negative integer.
SizeTransfers ==
    {Transfer(a, JStr("a.bin"), n, Hexdigest(<<0>>)) :
        a \in TransferActions,
        n \in {JInt(-1), JStr("1"), JStr("abc"), JNull, JFloat10(15)}}

\* Transfer headers with a field missing.
IncompleteTransfers ==
    {Transfer(SendFile, JAbsent, JInt(1), Hexdigest(<<0>>)),
     Transfer(SendFile, JStr("a.bin"), JAbsent, Hexdigest(<<0>>)),
     Transfer(SendFile, JStr("a.bin"), JInt(1), JAbsent),
     Transfer(JAbsent, JStr("a.bin"), JInt(1), JAbsent),
     Transfer(JStr("bogus"), JStr("a.bin"), JInt(1), JAbsent)}

\* Headers with an action the server does not know, with and without the
\* three transfer fields; and the empty object.
UnknownActionHeaders ==
    {Transfer(JStr("bogus"), JStr("a.bin"), JInt(1), Hexdigest(<<0>>)),
     Transfer(JStr("bogus"), JAbsent, JAbsent, JAbsent),
     Transfer(JAbsent, JAbsent, JAbsent, JAbsent)}

\* No header, plain texts, JSON values that are no object, and constants
\* that json.loads takes for JSON values.
NonObjectHeaders ==
    {Other("none", ""), Other("plain", "ping"), Other("plain", "PiNg"),
     Other("plain", "{bad"), Other("plain", ""), Other("json", "[1, 2]"),
     Other("json", "5"), Other("json", "NaN"), Other("json", "Infinity")}

\* JSON pings: the bare one, and one that carries transfer fields as well.
PingHeaders ==
    {Transfer(JStr("ping"), JAbsent, JAbsent, JAbsent),
     Transfer(JStr("ping"), JStr("a.bin"), JInt(1), Hexdigest(<<0>>))}

\* The transfer and routing requests of the first peer.
FirstUploaderHeaders ==
    CoreTransfers \cup FilenameTransfers \cup SizeTransfers \cup IncompleteTransfers
        \cup UnknownActionHeaders \cup NonObjectHeaders \cup PingHeaders

\* A second uploader of the same destination file.
SecondUploaderHeaders ==
    {Transfer(SendFile, JStr("a.bin"), JInt(n), Hexdigest(<<1>>)) : n \in {1, 2}}


----------------------------------------------------------------------------
(* DeviceEventManager: the state of the singleton event_manager.           *)

\* Subscribe calls are accepted while the lists hold fewer entries than this.
MaxSubscriptions == 3
\* Monitor tasks start() may create.
MaxMonitors == 1

\* Monitor tasks the manager can create when it is stopped and started again.
MaxLoops == 2
\* Threads that call emit_nowait.
MaxThreads == 2

\* ThreadPoolExecutor(max_workers=4)
max_workers == 4
\* self._heartbeat_timeout, in seconds
heartbeat_timeout == 10
\* timedelta.seconds is the seconds part of the normalised difference.
SecondsPerDay == 86400

\* Event types: one of the measurement stream, the sweep's own, the wildcard.
Wildcard == "*"
DeviceTimeout == "device_timeout"
EventTypes == {"cv_data_point", DeviceTimeout, Wildcard}
\* The types IoTPublisher subscribes to besides cv_data_point.
PublisherTypes == {"cv_config", "cv_measurement_complete"}
AllEventTypes == EventTypes \cup PublisherTypes

\* Callbacks: inspect.iscoroutinefunction tells the two kinds apart, a
\* coroutine function and any other callable.
Callback(name, is_coroutine) == [name |-> name, is_coroutine |-> is_coroutine]
OnData == Callback("handle_device_data", TRUE)
OnBlocking == Callback("blocking_handler", FALSE)
Callbacks == {OnData, OnBlocking}

\* What a callback does once it is invoked: it returns, it raises an
\* exception derived from Exception ("raises"), it raises one that is not,
\* such as asyncio.CancelledError, SystemExit and KeyboardInterrupt
\* ("raises_base"), or it never comes back.
Fates == {"returns", "raises", "raises_base", "hangs"}

Devices == {"PSTrace001", "PSTrace002"}
\* The device of the events that are not the sweep's.
Device1 == "PSTrace001"

\* Time is counted in half seconds.
UnitsPerSecond == 2
\* The values datetime.now() returns: the start, half a second and a whole
\* second past the timeout, five seconds past a day.
Times ==
    {0,
     heartbeat_timeout * UnitsPerSecond + 1,
     (heartbeat_timeout + 1) * UnitsPerSecond,
     (SecondsPerDay + heartbeat_timeout \div 2) * UnitsPerSecond}

\* Who awaits emit_event: a task that calls emit or emit_nowait, and the
\* monitor tasks.
Callers == {<<"caller", 1>>}
\* Who calls emit_nowait.
Threads == {<<"thread", k>> : k \in 1..MaxThreads}
Monitors == {<<"monitor", k>> : k \in 1..MaxMonitors}
Emitters == Callers \cup Monitors \cup Threads

NoEmission ==
    [pc |-> "idle", type |-> "none", device_id |-> "none", data |-> "none",
     callbacks |-> <<>>,
     calls |-> <<>>, fate |-> "none", errors |-> 0, nowait |-> "none", after |-> {}]
NoMonitor == [pc |-> "off", now |-> 0, items |-> <<>>]
\* The publisher is neither in start() nor in stop().
PubIdle == [at |-> "idle", done |-> 0]

\* DeviceEventManager.__init__
InitBus ==
    /\ subscribers = [t \in AllEventTypes |-> <<>>]
    /\ pub_running = FALSE
    /\ published = <<>>
    /\ pub_pc = PubIdle
    /\ running = FALSE
    /\ last_heartbeat = <<>>
    /\ datetime_now = 0
    /\ emission = [e \in Emitters |-> NoEmission]
    /\ monitor = [m \in Monitors |-> NoMonitor]

bus_vars == <<subscribers, running, last_heartbeat, datetime_now, emission, monitor>>
pub_vars == <<pub_running, published, pub_pc>>

----------------------------------------------------------------------------
(* The state after the module is imported: no connection yet, an empty     *)
(* DEST_DIR, no snapshot file, an empty registry.                           *)

NoHeader == Other("none", "")
NoFiles == [p \in {} |-> <<>>]
NoDevices == <<>>
NoSnapshot == [exists |-> FALSE, text |-> <<>>]

InitServer ==
    /\ pc = [c \in Conns |-> "idle"]
    /\ header = [c \in Conns |-> NoHeader]
    /\ out = [c \in Conns |-> <<>>]
    /\ stream = [c \in Conns |-> <<>>]
    /\ total_received = [c \in Conns |-> 0]
    /\ delivered = [c \in Conns |-> <<>>]
    /\ wbuf = [c \in Conns |-> <<>>]
    /\ exc = [c \in Conns |-> FALSE]
    /\ files = NoFiles
    /\ launched = {}
    /\ iot_devices = NoDevices
    /\ devices_file = NoSnapshot
    /\ savebuf = [c \in Conns |-> <<>>]
    /\ clock = 0
    /\ last_seen = [c \in Conns |-> 0]
    /\ dump_iter = [c \in Conns |-> 0]
    /\ accepted = 0
    /\ sensor_file = NoSnapshot
    /\ sensor_data = [c \in Conns |-> NoDevices]
    /\ stalled = [c \in Conns |-> FALSE]
    /\ header_read = [at |-> "recv", len |-> 0]

\* The session hook: its module imports and the session runs ("ok"), the
\* session raises or never returns in its thread ("raises", "hangs"), the
\* module cannot be found ("missing"), or the module calls sys.exit(1) while
\* it is imported because one of its own imports fails ("exits").
Hooks == {"ok", "raises", "hangs", "missing", "exits"}

\* The hooks for which threading.Thread(...).start() is reached.
HookStarts == {"ok", "raises", "hangs"}

\* The server with its collaborators in working order.
Init ==
    /\ InitServer
    /\ InitBus
    /\ hook = "ok"
    /\ snapshot_writable = TRUE

\* The server with any collaborator failure.
InitCollab ==
    /\ InitServer
    /\ InitBus
    /\ hook \in Hooks
    /\ snapshot_writable \in BOOLEAN

registry_vars == <<iot_devices, devices_file, savebuf, clock, last_seen, dump_iter>>
sensor_vars == <<sensor_file, sensor_data>>
\* What only the accept loop and the peers change.
env_vars == <<accepted, stalled, hook, snapshot_writable, bus_vars, pub_vars, header_read>>
\* What the steps of a handler that is not the accept loop leave alone.
other_vars == <<env_vars, sensor_vars>>
transfer_vars == <<stream, total_received, delivered, wbuf, files>>

----------------------------------------------------------------------------
(* handle_client, one step per access to shared state. *)

\* conn.sendall(token)
Send(c, token) == out' = [out EXCEPT ![c] = Append(@, token)]

\* The handler returns: conn.close() ran, on the branch or in the finally clause.
Close(c) == pc' = [pc EXCEPT ![c] = "closed"]

\* A handler without the finally clause: the exception ends it, the
\* connection stays open.
Raise_NoFinally(c) == exc' = [exc EXCEPT ![c] = TRUE] /\ pc' = [pc EXCEPT ![c] = "raised"]

\* The outer except clause: the exception is printed, the finally clause closes.
Raise(c) == exc' = [exc EXCEPT ![c] = TRUE] /\ Close(c)

\* A listener that runs the handler itself: it is back at server.accept()
\* only when no handler is running.
ListenerReady_Inline ==
    accepted < MaxConnections /\ \A c \in Conns : pc[c] \in {"idle", "closed"}

\* The accept loop is at server.accept(): it started a thread for the last
\* connection and did not wait for it.
ListenerReady == accepted < MaxConnections

\* server.accept() hands the connection to a new handler thread, and
\* _recv_header reads the header the peer sent; the peer then delivers body
\* and, unless it stalls, closes its sending side.
Receive(c, headers, bodies, stalls) ==
    /\ pc[c] = "idle"
    /\ ListenerReady
    /\ accepted' = accepted + 1
    /\ \E h \in headers :
         \E b \in IF Route(h) \in TransferRoutes THEN bodies ELSE {<<>>} :
            /\ header' = [header EXCEPT ![c] = h]
            /\ stream' = [stream EXCEPT ![c] = b]
    /\ \E s \in stalls : stalled' = [stalled EXCEPT ![c] = s]
    /\ pc' = [pc EXCEPT ![c] = "dispatch"]
    /\ UNCHANGED <<hook, snapshot_writable, bus_vars, pub_vars, header_read>>
    /\ UNCHANGED <<out, total_received, delivered, wbuf, exc, files, launched>>
    /\ UNCHANGED <<registry_vars, sensor_vars>>

\* A connection of a peer that closes its side once it has sent its bytes.
Accept(c, headers) == Receive(c, headers, BodyStreams, {FALSE})

\* A router whose answer to a ping lacks the newline.
ImmediateToken_BarePong(route) ==
    CASE route \in {"ping_text", "ping_json"} -> "PONG"
      [] route = "invalid_header" -> "ERR_INVALID_HEADER\n"
      [] route = "incomplete_header" -> "ERR_INCOMPLETE_HEADER\n"
      [] route = "unknown_action" -> "ERR_UNKNOWN_ACTION\n"
      [] OTHER -> ""

\* The token a route answers with at once, "" when it sends none.
ImmediateToken(route) ==
    CASE route \in {"ping_text", "ping_json"} -> "PONG\n"
      [] route = "invalid_header" -> "ERR_INVALID_HEADER\n"
      [] route = "incomplete_header" -> "ERR_INCOMPLETE_HEADER\n"
      [] route = "unknown_action" -> "ERR_UNKNOWN_ACTION\n"
      [] OTHER -> ""

\* try_launch_remote_session(serial, ...): a daemon thread is started.
LaunchRemoteSession(serial) ==
    launched' = IF hook \in HookStarts THEN launched \cup {serial} ELSE launched

\* SystemExit raised while the hook's module is imported: it is no Exception,
\* so neither try_launch_remote_session nor the outer except clause catches
\* it; the finally clause closes the connection and the thread ends.
HookExits == hook = "exits"

\* Lines 242-256 and 301-313: the declared size is converted, the remote
\* session is launched, the destination path is built and ACK is sent.
StartTransfer(c) ==
    LET h == header[c]
    IN  IF ~DeclaredSize(h).ok
        THEN Raise(c) /\ UNCHANGED <<out, launched>>
        ELSE /\ LaunchRemoteSession(SerialOf(h))
             /\ IF HookExits
                THEN Close(c) /\ UNCHANGED <<out, exc>>
                ELSE IF ~OsPathJoin(DEST_DIR, h.filename).ok
                     THEN Raise(c) /\ UNCHANGED out
                     ELSE /\ Send(c, "ACK")
                          /\ pc' = [pc EXCEPT ![c] = "open"]
                          /\ UNCHANGED exc

\* The router: from the header text to the branch that handles it.
Dispatch(c) ==
    /\ UNCHANGED other_vars
    /\ pc[c] = "dispatch"
    /\ LET route == Route(header[c])
       IN  CASE route \in TransferRoutes -> StartTransfer(c)
             [] route = "hello" ->
                  /\ pc' = [pc EXCEPT ![c] = "hello_stamp"]
                  /\ UNCHANGED <<out, exc, launched>>
             [] route = "data" ->
                  /\ pc' = [pc EXCEPT ![c] = "data_save"]
                  /\ UNCHANGED <<out, exc, launched>>
             [] route = "empty" ->
                  /\ Close(c)
                  /\ UNCHANGED <<out, exc, launched>>
             [] OTHER ->
                  /\ Send(c, ImmediateToken(route))
                  /\ Close(c)
                  /\ UNCHANGED <<exc, launched>>
    /\ UNCHANGED <<header, registry_vars, transfer_vars>>

\* with open(filepath, "wb") as f: the file is created or truncated.
OpenFile(c) ==
    /\ UNCHANGED other_vars
    /\ pc[c] = "open"
    /\ LET p == FilePath(header[c])
       IN  IF CanOpenForWrite(p)
           THEN /\ files' = [q \in DOMAIN files \cup {p} |->
                                IF q = p THEN <<>> ELSE files[q]]
                /\ pc' = [pc EXCEPT ![c] = "recv"]
                /\ UNCHANGED exc
           ELSE Raise(c) /\ UNCHANGED files
    /\ UNCHANGED <<header, out, stream, total_received, delivered, wbuf, launched>>
    /\ UNCHANGED registry_vars

\* while total_received < size, and conn.recv has bytes to return.
MoreToRead(c) == total_received[c] < DeclaredSize(header[c]).val /\ stream[c] # <<>>

\* The loop is over: the count reached size, or conn.recv returned b"", which
\* it does when the peer has closed its side and every byte was read.
LoopEnds(c) ==
    \/ total_received[c] >= DeclaredSize(header[c]).val
    \/ stream[c] = <<>> /\ ~stalled[c]

\* The number of bytes conn.recv(BUFFER_SIZE) asks for.
RecvLimit(c) == BUFFER_SIZE

\* One turn of the loop: conn.recv returns some of the bytes in flight, which
\* are written to the file object and counted.
RecvChunk(c) ==
    /\ UNCHANGED other_vars
    /\ pc[c] = "recv"
    /\ MoreToRead(c)
    /\ \E k \in 1..Min(RecvLimit(c), Len(stream[c])) :
         LET data == SubSeq(stream[c], 1, k)
         IN  /\ wbuf' = [wbuf EXCEPT ![c] = @ \o data]
             /\ delivered' = [delivered EXCEPT ![c] = @ \o data]
             /\ total_received' = [total_received EXCEPT ![c] = @ + Len(data)]
             /\ stream' = [stream EXCEPT ![c] = SubSeq(@, k + 1, Len(@))]
    /\ UNCHANGED <<pc, header, out, exc, files, launched>>
    /\ UNCHANGED registry_vars

\* The file object writes its buffer at its own offset in the file.
Flushed(c) ==
    LET p == FilePath(header[c])
    IN  [files EXCEPT ![p] = WriteAt(@, total_received[c] - Len(wbuf[c]), wbuf[c])]

\* The buffer of the file object fills up and is written out during the loop.
Flush(c) ==
    /\ UNCHANGED other_vars
    /\ pc[c] = "recv"
    /\ wbuf[c] # <<>>
    /\ files' = Flushed(c)
    /\ wbuf' = [wbuf EXCEPT ![c] = <<>>]
    /\ UNCHANGED <<pc, header, out, stream, total_received, delivered, exc, launched>>
    /\ UNCHANGED registry_vars

\* The loop ends (the count reached size, or recv returned b"" because the
\* peer closed) and the with block closes the file, which flushes it.
CloseFile(c) ==
    /\ UNCHANGED other_vars
    /\ pc[c] = "recv"
    /\ LoopEnds(c)
    /\ files' = Flushed(c)
    /\ wbuf' = [wbuf EXCEPT ![c] = <<>>]
    /\ pc' = [pc EXCEPT ![c] = "verify"]
    /\ UNCHANGED <<header, out, stream, total_received, delivered, exc, launched>>
    /\ UNCHANGED registry_vars

\* The verdict of lines 270-288: EOF_OK when the digest of the file read back
\* equals the declared checksum, and also when the file cannot be read.
Verdict(path, checksum) ==
    IF path \notin DOMAIN files
    THEN "EOF_OK"
    ELSE IF Hexdigest(files[path]) # checksum THEN "ERR_CHECKSUM\n" ELSE "EOF_OK"

\* The file is read back, its digest compared, the verdict sent, the connection closed.
Verify(c) ==
    /\ UNCHANGED other_vars
    /\ pc[c] = "verify"
    /\ Send(c, Verdict(FilePath(header[c]), header[c].checksum))
    /\ Close(c)
    /\ UNCHANGED <<header, exc, launched, registry_vars, transfer_vars>>

----------------------------------------------------------------------------
(* The device registry: a Python dict, kept as the sequence of its items   *)
(* in insertion order, and its JSON snapshot, kept as a sequence of tokens. *)

\* hash() of a list or of a dict raises TypeError.
Hashable(v) == v.t \notin {"list", "dict"}

\* What a key is for hash() and ==: a float with an integral value is the
\* same key as the int of that value.
DictKey(v) == IF v.t = "float" /\ v.n % 10 = 0 THEN JInt(v.n \div 10) ELSE v

\* The keys of a dict, as hash() and == tell them apart.
Keys(d) == {DictKey(d[i].key) : i \in 1..Len(d)}

\* d[k], for a key of d.
Lookup(d, k) == d[CHOOSE i \in 1..Len(d) : DictKey(d[i].key) = DictKey(k)].value

\* d[k] = v: an existing key keeps its place and the key object first stored
\* and takes the new value; a new key is appended as it is given.
DictSet(d, k, v) ==
    IF DictKey(k) \in Keys(d)
    THEN [i \in 1..Len(d) |->
             IF DictKey(d[i].key) = DictKey(k) THEN [key |-> d[i].key, value |-> v] ELSE d[i]]
    ELSE Append(d, [key |-> k, value |-> v])

\* The decimal text of an integer.
IntText(n) == IF n < 0 THEN "-" \o ToString(0 - n) ELSE ToString(n)

\* float.__repr__ of a float given in tenths: JFloat10(10) is written 1.0.
FloatText(n) ==
    LET m == IF n < 0 THEN 0 - n ELSE n
    IN  (IF n < 0 THEN "-" ELSE "") \o ToString(m \div 10) \o "." \o ToString(m % 10)

\* The text json.dump writes for a key: a string as it is, a number as its
\* decimal text, None as null.
KeyText(k) ==
    CASE k.t = "int" -> JStr(IntText(k.n))
      [] k.t = "float" -> JStr(FloatText(k.n))
      [] k.t = "null" -> JStr("null")
      [] OTHER -> k

\* time.time(), given in hundredths of a second, as a JSON value.
JTime(n) == [t |-> "time", s |-> "", n |-> n]

\* The text of _now_ts() for second n, as a JSON value.
JStamp(n) == [t |-> "stamp", s |-> "", n |-> n]

\* The number of decimal digits of a number that is not negative.
RECURSIVE Digits(_)
Digits(n) == IF n < 10 THEN 1 ELSE 1 + Digits(n \div 10)

\* The length of datetime.now().isoformat(timespec="seconds").
IsoWidth == 19

\* The number of characters float.__repr__ gives a time in hundredths of a
\* second: 0 is written 0.0, 1 is written 0.01, 150 is written 1.5.
TimeWidth(n) == Digits(n \div 100) + 1 + (IF n % 10 = 0 THEN 1 ELSE 2)

\* The number of characters json.dump writes for a value that is not an
\* object with members: a string of the model needs no escape, a float in
\* tenths is written with its sign, integer part, point and one digit, nan
\* is written NaN, and the list and the dict of the model are the empty
\* ones, [] and {}.
ValueWidth(v) ==
    CASE v.t = "str" -> Len(v.s) + 2
      [] v.t = "int" -> IF v.n < 0 THEN 1 + Digits(0 - v.n) ELSE Digits(v.n)
      [] v.t = "float" ->
            IF v.n < 0 THEN 1 + Digits((0 - v.n) \div 10) + 2 ELSE Digits(v.n \div 10) + 2
      [] v.t = "time" -> TimeWidth(v.n)
      [] v.t = "stamp" -> IsoWidth + 2
      [] v.t = "null" -> 4
      [] v.t = "nan" -> 3
      [] v.t = "list" -> 2
      [] v.t = "dict" -> 2

(* The text json.dump writes with indent=2, as the sequence of the chunks  *)
(* it is made of.  Every chunk has the same fields: cut is 0 for a whole   *)
(* chunk, and n when only its last n characters are there.                 *)

NoValue == [ip |-> "", device_type |-> JAbsent, last_seen |-> 0]
Chunk(kind) == [tok |-> kind, key |-> JAbsent, value |-> NoValue, cut |-> 0]

\* The brace that opens the object, with the newline and the indent that
\* json.dump writes before the first item.
OpenBrace == Chunk("{")
\* The comma between two items, with the newline and the indent.
Separator == Chunk(",")
\* The newline and the brace that close the object.
CloseBrace == Chunk("}")
\* The text of an empty dict: {}.
EmptyObject == Chunk("{}")
\* An item: the key text, the colon, and the value.
Item(k, v) == [tok |-> "item", key |-> k, value |-> v, cut |-> 0]

\* json.dump(d, fh, indent=2, default=str): the text of the dict.
JsonDump(d) ==
    IF d = <<>>
    THEN <<EmptyObject>>
    ELSE <<OpenBrace>>
            \o [i \in 1..(2 * Len(d) - 1) |->
                    IF i % 2 = 1
                    THEN Item(KeyText(d[(i + 1) \div 2].key), d[(i + 1) \div 2].value)
                    ELSE Separator]
            \o <<CloseBrace>>

(* The pieces a chunk is made of, each with its number of characters and   *)
(* what a JSON parser reads it as: white space (ws), a brace (LB, RB), a   *)
(* comma, a member (a key, the colon and a whole value), or the head of an *)
(* item whose value is an object (the key, the colon and the brace).       *)

Piece(w, lex, k, v) == [w |-> w, lex |-> lex, key |-> k, value |-> v]
Blank(w) == Piece(w, "ws", JAbsent, JAbsent)
Mark(lex) == Piece(1, lex, JAbsent, JAbsent)
Member(k, v) == Piece(ValueWidth(k) + 2 + ValueWidth(v), "member", k, v)
ItemHead(k) == Piece(ValueWidth(k) + 2 + 1, "head", k, JAbsent)

\* The value of an item is a device record or a sensor reading, not a value
\* on one line.
IsObject(v) == "t" \notin DOMAIN v

\* The members of the object an item holds, written at the second level of
\* indent: those of a device record, or those of a sensor reading.
Fields(r) ==
    IF "ip" \in DOMAIN r
    THEN <<Member(JStr("ip"), JStr(r.ip)), Mark("COMMA"), Blank(5),
           Member(JStr("device_type"), r.device_type), Mark("COMMA"), Blank(5),
           Member(JStr("last_seen"), JTime(r.last_seen))>>
    ELSE <<Member(JStr("timestamp"), JStamp(r.timestamp)), Mark("COMMA"), Blank(5),
           Member(JStr("payload"), r.payload)>>

Pieces(t) ==
    CASE t.tok = "{" -> <<Mark("LB"), Blank(3)>>
      [] t.tok = "," -> <<Mark("COMMA"), Blank(3)>>
      [] t.tok = "}" -> <<Blank(1), Mark("RB")>>
      [] t.tok = "{}" -> <<Mark("LB"), Mark("RB")>>
      [] t.tok = "item" ->
            IF IsObject(t.value)
            THEN <<ItemHead(t.key), Blank(5)>> \o Fields(t.value) \o <<Blank(3), Mark("RB")>>
            ELSE <<Member(t.key, t.value)>>

\* The number of characters of the object an item holds, written with
\* indent=2 at the second level: a device record or a sensor reading, from
\* its opening brace to its closing brace.
RecordWidth(r) ==
    IF "ip" \in DOMAIN r
    THEN 1 + (5 + 6 + Len(r.ip) + 2) + (1 + 5 + 15 + ValueWidth(r.device_type))
           + (1 + 5 + 13 + TimeWidth(r.last_seen)) + 4
    ELSE 1 + (5 + 13 + IsoWidth + 2) + (1 + 5 + 11 + ValueWidth(r.payload)) + 4

\* The number of characters of a chunk.
TokenWidth(t) ==
    CASE t.cut > 0 -> t.cut
      [] t.tok = "{" -> 4
      [] t.tok = "," -> 4
      [] t.tok = "}" -> 2
      [] t.tok = "{}" -> 2
      [] t.tok = "item" ->
            ValueWidth(t.key) + 2
                + (IF IsObject(t.value) THEN RecordWidth(t.value) ELSE ValueWidth(t.value))

\* The number of characters of the first n chunks of a text.
RECURSIVE WidthOf(_, _)
WidthOf(text, n) == IF n = 0 THEN 0 ELSE WidthOf(text, n - 1) + TokenWidth(text[n])

\* The number of characters of a text.
Width(text) == WidthOf(text, Len(text))

\* The last n characters of a chunk, n smaller than its width.
Fragment(t, n) == [t EXCEPT !.cut = n]

\* What a text has beyond its first w characters.
RECURSIVE Beyond(_, _)
Beyond(text, w) ==
    IF text = <<>> \/ w = 0
    THEN text
    ELSE IF w >= TokenWidth(text[1])
         THEN Beyond(Tail(text), w - TokenWidth(text[1]))
         ELSE <<Fragment(text[1], TokenWidth(text[1]) - w)>> \o Tail(text)

\* The file after a writer that opened it flushes text at offset 0: a text
\* at least as long as the content replaces it, a shorter one leaves the
\* characters of the content beyond its own end, and no text leaves it all.
Overwrite(old, text) ==
    IF text = <<>> THEN old ELSE text \o Beyond(old, Width(text))

\* io.DEFAULT_BUFFER_SIZE: the file object open(path, "w") returns hands a
\* text to the file when it has this many characters, and at flush or close.
DEFAULT_BUFFER_SIZE == 8192

\* The file object keeps the whole text until it is closed.
KeptUntilClose(text) == Width(text) < DEFAULT_BUFFER_SIZE

\* What a parser reads.
Lexeme(lex, k, v) == [lex |-> lex, key |-> k, value |-> v]

\* What a parser reads where a piece stands whole.
LexOf(piece) ==
    IF piece.lex = "ws" THEN <<>> ELSE <<Lexeme(piece.lex, piece.key, piece.value)>>

\* What a parser reads where only the last n characters of a piece stand,
\* behind a text that ends with a brace, a quote or white space, as every
\* text does that json.dump leaves of a dict of records: nothing for white
\* space, the closing brace of a member whose value is {}, the brace of a
\* head with or without the space before it, and otherwise text that belongs
\* to no JSON document (the end of a string runs into a newline or into the
\* characters of the next value, and a number has no key before it).
Partial(piece, n) ==
    CASE piece.lex = "ws" -> <<>>
      [] piece.lex = "member" /\ piece.value.t = "dict" /\ n = 1 ->
            <<Lexeme("RB", JAbsent, JAbsent)>>
      [] piece.lex = "head" /\ n <= 2 -> <<Lexeme("LB", JAbsent, JAbsent)>>
      [] OTHER -> <<Lexeme("JUNK", JAbsent, JAbsent)>>

\* What a parser reads in the last n characters of a sequence of pieces.
RECURSIVE Suffix(_, _)
Suffix(p, n) ==
    IF n = 0 \/ p = <<>>
    THEN <<>>
    ELSE LET last == p[Len(p)]
         IN  IF n >= last.w
             THEN Suffix(SubSeq(p, 1, Len(p) - 1), n - last.w) \o LexOf(last)
             ELSE Partial(last, n)

\* What a parser reads in a chunk: a whole item is one member.
ChunkLexemes(t) ==
    IF t.cut > 0
    THEN Suffix(Pieces([t EXCEPT !.cut = 0]), t.cut)
    ELSE IF t.tok = "item"
         THEN <<Lexeme("member", t.key, t.value)>>
         ELSE Suffix(Pieces(t), TokenWidth(t))

\* What a parser reads in the first n chunks of a text.
RECURSIVE Lexemes(_, _)
Lexemes(text, n) == IF n = 0 THEN <<>> ELSE Lexemes(text, n - 1) \o ChunkLexemes(text[n])

\* json.load accepts the text: it is one JSON object, {} or members divided
\* by commas between one pair of braces, with nothing but white space after.
WellFormed(text) ==
    LET L == Lexemes(text, Len(text))
    IN  /\ Len(L) >= 2
        /\ L[1].lex = "LB"
        /\ L[Len(L)].lex = "RB"
        /\ Len(L) > 2 =>
              /\ Len(L) % 2 = 1
              /\ \A i \in 2..(Len(L) - 1) :
                    L[i].lex = IF i % 2 = 0 THEN "member" ELSE "COMMA"

\* The dict the first n lexemes of a well-formed text decode to: a repeated
\* key keeps its place and takes the later value.
RECURSIVE LoadItems(_, _)
LoadItems(L, n) ==
    IF n = 0
    THEN <<>>
    ELSE IF L[n].lex = "member"
         THEN DictSet(LoadItems(L, n - 1), L[n].key, L[n].value)
         ELSE LoadItems(L, n - 1)

\* json.load of the file where the code catches its failure: a missing or
\* malformed file leaves the dict empty.
JsonLoad(file) ==
    IF file.exists /\ WellFormed(file.text)
    THEN LoadItems(Lexemes(file.text, Len(file.text)), Len(Lexemes(file.text, Len(file.text))))
    ELSE <<>>

\* Two dicts are equal: the same keys with the same values, in any order.
DictEq(a, b) ==
    /\ Keys(a) = Keys(b)
    /\ \A k \in Keys(a) : Lookup(a, k) = Lookup(b, k)

\* device_type = header.get("device_type", "UNKNOWN")
DeviceTypeOf(h) == Get(h.device_type, JStr("UNKNOWN"))

\* The record a hello stores: the peer IP, the device type, time.time().
DeviceRecord(c, h, now) ==
    [ip |-> PeerIp(c), device_type |-> DeviceTypeOf(h), last_seen |-> now]

\* The dict display of the record is evaluated: "last_seen": time.time().
HelloStamp(c) ==
    /\ UNCHANGED other_vars
    /\ pc[c] = "hello_stamp"
    /\ last_seen' = [last_seen EXCEPT ![c] = clock]
    /\ pc' = [pc EXCEPT ![c] = "hello_update"]
    /\ UNCHANGED <<header, out, exc, launched, iot_devices, devices_file, savebuf, clock,
                   dump_iter>>
    /\ UNCHANGED transfer_vars

\* iot_devices[serial] = {...}: the record is stored under the serial.
HelloUpdate(c) ==
    /\ UNCHANGED other_vars
    /\ pc[c] = "hello_update"
    /\ LET h == header[c]
       IN  IF Hashable(SerialOf(h))
           THEN /\ iot_devices' =
                       DictSet(iot_devices, SerialOf(h),
                               DeviceRecord(c, h, last_seen[c]))
                /\ pc' = [pc EXCEPT ![c] = "save_open"]
                /\ UNCHANGED exc
           ELSE Raise(c) /\ UNCHANGED iot_devices
    /\ UNCHANGED <<header, out, launched, devices_file, savebuf, clock, last_seen,
                   dump_iter>>
    /\ UNCHANGED transfer_vars

\* save_iot_devices: open(IOT_DEVICES_FILE, "w") creates or truncates the
\* file; when it raises, save_iot_devices prints the error and returns.
SaveOpen(c) ==
    /\ UNCHANGED other_vars
    /\ pc[c] = "save_open"
    /\ IF snapshot_writable
       THEN /\ devices_file' = [exists |-> TRUE, text |-> <<>>]
            /\ pc' = [pc EXCEPT ![c] = "save_dump"]
       ELSE /\ pc' = [pc EXCEPT ![c] = "hello_ack"]
            /\ UNCHANGED devices_file
    /\ UNCHANGED <<header, out, exc, launched, iot_devices, savebuf, clock, last_seen,
                   dump_iter>>
    /\ UNCHANGED transfer_vars

\* save_iot_devices: json.dump starts on the dict shared by the handlers.  An
\* empty dict is written as {}; otherwise the opening brace, the newline and
\* the indent are written to the file object.
SaveDump(c) ==
    /\ UNCHANGED other_vars
    /\ pc[c] = "save_dump"
    /\ IF iot_devices = <<>>
       THEN /\ savebuf' = [savebuf EXCEPT ![c] = <<EmptyObject>>]
            /\ pc' = [pc EXCEPT ![c] = "save_close"]
       ELSE /\ savebuf' = [savebuf EXCEPT ![c] = <<OpenBrace>>]
            /\ pc' = [pc EXCEPT ![c] = "save_item"]
    /\ UNCHANGED <<header, out, exc, launched, iot_devices, devices_file, clock, last_seen,
                   dump_iter>>
    /\ UNCHANGED transfer_vars

\* save_iot_devices: json.dump asks the iteration over the dict for the next
\* item.  For the first item the iteration is created, which notes the size
\* of the dict, and gives the first item at once.  Later, when the dict has
\* changed size since the iteration was created, RuntimeError is raised and
\* what was written so far stays in the file object; otherwise the item, as
\* it is now, is written after a separator, or the closing brace when no
\* item is left.  The texts written are shorter than the buffer of the file
\* object.
SaveItem(c) ==
    /\ UNCHANGED other_vars
    /\ pc[c] = "save_item"
    /\ LET done == Len(savebuf[c]) \div 2
       IN  IF done = 0
           THEN /\ dump_iter' = [dump_iter EXCEPT ![c] = Len(iot_devices)]
                /\ savebuf' = [savebuf EXCEPT ![c] =
                       Append(@, Item(KeyText(iot_devices[1].key), iot_devices[1].value))]
                /\ UNCHANGED pc
           ELSE IF Len(iot_devices) # dump_iter[c]
                THEN /\ pc' = [pc EXCEPT ![c] = "save_close"]
                     /\ UNCHANGED <<savebuf, dump_iter>>
                ELSE IF done < dump_iter[c]
                     THEN /\ savebuf' = [savebuf EXCEPT ![c] =
                                 @ \o <<Separator,
                                        Item(KeyText(iot_devices[done + 1].key),
                                             iot_devices[done + 1].value)>>]
                          /\ UNCHANGED <<pc, dump_iter>>
                     ELSE /\ savebuf' = [savebuf EXCEPT ![c] = Append(@, CloseBrace)]
                          /\ pc' = [pc EXCEPT ![c] = "save_close"]
                          /\ UNCHANGED dump_iter
    /\ KeptUntilClose(savebuf'[c])
    /\ UNCHANGED <<header, out, exc, launched, iot_devices, devices_file, clock, last_seen>>
    /\ UNCHANGED transfer_vars

\* save_iot_devices: the with block closes the file, which hands the text the
\* file object kept to the file; a RuntimeError of json.dump is printed and
\* swallowed after that.
SaveClose(c) ==
    /\ UNCHANGED other_vars
    /\ pc[c] = "save_close"
    /\ devices_file' = [exists |-> TRUE, text |-> Overwrite(devices_file.text, savebuf[c])]
    /\ savebuf' = [savebuf EXCEPT ![c] = <<>>]
    /\ dump_iter' = [dump_iter EXCEPT ![c] = 0]
    /\ pc' = [pc EXCEPT ![c] = "hello_ack"]
    /\ UNCHANGED <<header, out, exc, launched, iot_devices, clock, last_seen>>
    /\ UNCHANGED transfer_vars

\* ACK_HELLO is sent, the remote session launched, the connection closed.
HelloAck(c) ==
    /\ UNCHANGED other_vars
    /\ pc[c] = "hello_ack"
    /\ Send(c, "ACK_HELLO\n")
    /\ LaunchRemoteSession(SerialOf(header[c]))
    /\ Close(c)
    /\ UNCHANGED <<header, exc, registry_vars, transfer_vars>>

\* The handler thread has ended; the next connection gets a new one.
Reset(c) ==
    /\ UNCHANGED other_vars
    /\ pc[c] = "closed"
    /\ pc' = [pc EXCEPT ![c] = "idle"]
    /\ header' = [header EXCEPT ![c] = NoHeader]
    /\ out' = [out EXCEPT ![c] = <<>>]
    /\ stream' = [stream EXCEPT ![c] = <<>>]
    /\ total_received' = [total_received EXCEPT ![c] = 0]
    /\ delivered' = [delivered EXCEPT ![c] = <<>>]
    /\ exc' = [exc EXCEPT ![c] = FALSE]
    /\ UNCHANGED <<wbuf, files, launched, registry_vars>>

\* Time passes.
Tick ==
    /\ UNCHANGED other_vars
    /\ clock < MaxClock
    /\ clock' = clock + 1
    /\ UNCHANGED <<pc, header, out, exc, launched, iot_devices, devices_file, savebuf,
                   last_seen, dump_iter>>
    /\ UNCHANGED transfer_vars

\* The hello requests peers send: two serials that json.dump writes under
\* the same key, with and without a device type, a serial that is a list, a
\* serial that is the float 1.0 (the same dict key as the int 1, written
\* under the text of whichever was stored first), and a hello that names
\* neither serial nor device type.
HelloHeaders ==
    {Obj(JStr("hello"), s, d, JAbsent, JAbsent, JAbsent, JAbsent) :
        s \in {JStr("1"), JInt(1)}, d \in {JStr("SENSOR"), JAbsent}}
        \cup {Obj(JStr("hello"), s, JStr("SENSOR"), JAbsent, JAbsent, JAbsent, JAbsent) :
                 s \in {JList, JFloat10(10)}}
        \cup {Obj(JStr("hello"), JAbsent, JAbsent, JAbsent, JAbsent, JAbsent, JAbsent)}

(* The server registering devices: hello handlers run side by side, one     *)
(* connection after another on each thread slot.                            *)
NextRegistry ==
    \/ Tick
    \/ \E c \in Conns :
        \/ Accept(c, HelloHeaders)
        \/ Dispatch(c)
        \/ HelloStamp(c)
        \/ HelloUpdate(c)
        \/ SaveOpen(c)
        \/ SaveDump(c)
        \/ SaveItem(c)
        \/ SaveClose(c)
        \/ HelloAck(c)
        \/ Reset(c)

SpecRegistry == Init /\ [][NextRegistry]_vars

----------------------------------------------------------------------------
(* The sensor-data store: save_sensor_data keeps the last reading per      *)
(* serial in datos_sensores.json, read and rewritten by each data handler. *)

\* The empty JSON object {}.
JEmptyDict == [t |-> "dict", s |-> "", n |-> 0]

\* payload = header.get("payload", {})
PayloadOf(h) == Get(h.payload, JEmptyDict)

\* The entry save_sensor_data stores: _now_ts(), which is the time cut to
\* whole seconds, and the payload.
Reading(h, now) == [timestamp |-> now \div 100, payload |-> PayloadOf(h)]

\* What the handler-step of a data request leaves alone besides the store.
data_frame == <<header, exc, launched, transfer_vars, env_vars,
                iot_devices, devices_file, clock, last_seen, dump_iter>>

\* save_sensor_data: the file is read if it exists (a text json.load rejects
\* counts as {}), and data[serial] is set; a serial that cannot be a key
\* raises TypeError, which save_sensor_data prints and swallows.
DataLoad(c) ==
    /\ pc[c] = "data_save"
    /\ LET h == header[c]
       IN  IF Hashable(SerialOf(h))
           THEN /\ sensor_data' = [sensor_data EXCEPT ![c] =
                       DictSet(JsonLoad(sensor_file), SerialOf(h), Reading(h, clock))]
                /\ pc' = [pc EXCEPT ![c] = "data_open"]
           ELSE /\ pc' = [pc EXCEPT ![c] = "data_ack"]
                /\ UNCHANGED sensor_data
    /\ UNCHANGED <<out, sensor_file, savebuf, data_frame>>

\* save_sensor_data: open(IOT_DATA_FILE, "w") truncates the file and
\* json.dump writes the dict to the file object, a text shorter than its
\* buffer.
DataOpen(c) ==
    /\ pc[c] = "data_open"
    /\ KeptUntilClose(JsonDump(sensor_data[c]))
    /\ sensor_file' = [exists |-> TRUE, text |-> <<>>]
    /\ savebuf' = [savebuf EXCEPT ![c] = JsonDump(sensor_data[c])]
    /\ pc' = [pc EXCEPT ![c] = "data_close"]
    /\ UNCHANGED <<out, sensor_data, data_frame>>

\* save_sensor_data: the with block closes the file, which hands the text the
\* file object kept to the file.
DataClose(c) ==
    /\ pc[c] = "data_close"
    /\ sensor_file' = [exists |-> TRUE, text |-> Overwrite(sensor_file.text, savebuf[c])]
    /\ savebuf' = [savebuf EXCEPT ![c] = <<>>]
    /\ pc' = [pc EXCEPT ![c] = "data_ack"]
    /\ UNCHANGED <<out, sensor_data, data_frame>>

\* ACK_DATA is sent and the connection closed.
DataAck(c) ==
    /\ pc[c] = "data_ack"
    /\ Send(c, "ACK_DATA\n")
    /\ Close(c)
    /\ UNCHANGED <<sensor_file, savebuf, sensor_data, data_frame>>

\* A data request.
Data(serial, payload) ==
    Obj(JStr("data"), serial, JAbsent, payload, JAbsent, JAbsent, JAbsent)

\* The data requests peers send: readings of two devices, requests that lack
\* the serial, the payload or both, and a serial that is a list.
DataHeaders ==
    {Data(JStr(x), JInt(p)) : x \in {"1", "2"}, p \in {1, 2}}
        \cup {Data(JAbsent, JInt(1)), Data(JStr("1"), JAbsent), Data(JAbsent, JAbsent),
              Data(JList, JInt(1))}

(* The server taking telemetry: data handlers run side by side.            *)
NextData ==
    \E c \in Conns :
        \/ Accept(c, DataHeaders)
        \/ Dispatch(c)
        \/ DataLoad(c)
        \/ DataOpen(c)
        \/ DataClose(c)
        \/ DataAck(c)

SpecData == Init /\ [][NextData]_vars

----------------------------------------------------------------------------
(* The server: handler threads run side by side, one connection each; the  *)
(* first peer sends any request, the second uploads to the same file.      *)

\* What the first peer sends as its header.
FirstPeerHeaders ==
    FirstUploaderHeaders
        \cup {Obj(JStr("hello"), JStr("1"), JStr("SENSOR"), JAbsent, JAbsent, JAbsent, JAbsent),
              Obj(JStr("hello"), JList, JStr("SENSOR"), JAbsent, JAbsent, JAbsent, JAbsent),
              Obj(JStr("hello"), JStr("1"), JNaN, JAbsent, JAbsent, JAbsent, JAbsent),
              Data(JStr("1"), JInt(1)), Data(JList, JInt(1))}

HeadersOf(c) == IF c = "c1" THEN FirstPeerHeaders ELSE SecondUploaderHeaders

Next ==
    \E c \in Conns :
        \/ Accept(c, HeadersOf(c))
        \/ Dispatch(c)
        \/ OpenFile(c)
        \/ RecvChunk(c)
        \/ Flush(c)
        \/ CloseFile(c)
        \/ Verify(c)
        \/ HelloStamp(c)
        \/ HelloUpdate(c)
        \/ SaveOpen(c)
        \/ SaveDump(c)
        \/ SaveItem(c)
        \/ SaveClose(c)
        \/ HelloAck(c)
        \/ DataLoad(c)
        \/ DataOpen(c)
        \/ DataClose(c)
        \/ DataAck(c)

Spec == Init /\ [][Next]_vars

----------------------------------------------------------------------------
(* The server with peers that stall: a peer may connect and never finish   *)
(* its header, or stop in the middle of a file body without closing.       *)

\* The peer of c connected and sends nothing: _recv_header stays in
\* conn.recv(1), which has no timeout.
AcceptSilent(c) ==
    /\ pc[c] = "idle"
    /\ ListenerReady
    /\ accepted' = accepted + 1
    /\ stalled' = [stalled EXCEPT ![c] = TRUE]
    /\ pc' = [pc EXCEPT ![c] = "recv_header"]
    /\ UNCHANGED <<hook, snapshot_writable, bus_vars, pub_vars, header_read>>
    /\ UNCHANGED <<header, out, stream, total_received, delivered, wbuf, exc, files,
                   launched, registry_vars, sensor_vars>>

\* One request of each kind.
LiveHeaders ==
    {Transfer(SendFile, JStr("a.bin"), JInt(2), Hexdigest(<<0, 1>>)),
     Transfer(JStr("ping"), JAbsent, JAbsent, JAbsent),
     Obj(JStr("hello"), JStr("1"), JStr("SENSOR"), JAbsent, JAbsent, JAbsent, JAbsent),
     Data(JStr("1"), JInt(1)),
     Other("plain", "{bad")}

\* What a peer sends of the two bytes of its file: nothing, one, or both.
LiveBodies == {<<>>, <<0>>, <<0, 1>>}

\* A peer that sends a whole header, and then closes or stalls.
AcceptLive(c) == Receive(c, LiveHeaders, LiveBodies, BOOLEAN)

\* The steps of the handler thread of c.
HandlerStep(c) ==
    \/ Dispatch(c)
    \/ OpenFile(c)
    \/ RecvChunk(c)
    \/ CloseFile(c)
    \/ Verify(c)
    \/ HelloStamp(c)
    \/ HelloUpdate(c)
    \/ SaveOpen(c)
    \/ SaveDump(c)
    \/ SaveItem(c)
    \/ SaveClose(c)
    \/ HelloAck(c)
    \/ DataLoad(c)
    \/ DataOpen(c)
    \/ DataClose(c)
    \/ DataAck(c)

NextLive ==
    \/ Tick
    \/ \E c \in Conns :
        \/ AcceptLive(c)
        \/ AcceptSilent(c)
        \/ HandlerStep(c)

\* Threads are scheduled fairly: a handler that can take a step takes one,
\* and the accept loop takes a connection a peer is waiting on.
SpecLive ==
    /\ Init
    /\ [][NextLive]_vars
    /\ \A c \in Conns : WF_vars(HandlerStep(c))
    /\ \A c \in Conns : WF_vars(AcceptLive(c) \/ AcceptSilent(c))

----------------------------------------------------------------------------
(* The server with failing collaborators: the snapshot file may not be     *)
(* writable and the session hook may be missing, fail or never return.     *)

\* A transfer by each route, a hello and a data request.
CollabHeaders ==
    {Transfer(a, JStr("a.bin"), JInt(1), Hexdigest(<<0>>)) : a \in TransferActions}
        \cup {Obj(JStr("hello"), JStr("1"), JStr("SENSOR"), JAbsent, JAbsent, JAbsent, JAbsent),
              Data(JStr("1"), JInt(1))}

\* The peer sends the byte it declared, or another one.
CollabBodies == {<<0>>, <<1>>}

NextCollab ==
    \/ Tick
    \/ \E c \in Conns :
        \/ Receive(c, CollabHeaders, CollabBodies, {FALSE})
        \/ HandlerStep(c)

SpecCollab == InitCollab /\ [][NextCollab]_vars

----------------------------------------------------------------------------
(* DeviceEventManager: subscriptions, emit_event and the heartbeat sweep.  *)
(* The coroutines run on one event loop and interleave at their awaits;    *)
(* synchronous callbacks run on the threads of the executor.               *)

handler_vars == <<pc, header, out, exc, launched, transfer_vars, registry_vars,
                  sensor_vars, accepted, stalled, hook, snapshot_writable, header_read>>
server_vars == <<handler_vars, pub_vars>>

\* The entries of all subscriber lists.
RECURSIVE SumLen(_, _)
SumLen(f, S) ==
    IF S = {} THEN 0
    ELSE LET t == CHOOSE x \in S : TRUE IN Len(f[t]) + SumLen(f, S \ {t})

\* get_subscriber_count()
SubscriberCount == SumLen(subscribers, AllEventTypes)

\* subscribe(event_type, callback)
Subscribe(t, cb) ==
    /\ SubscriberCount < MaxSubscriptions
    /\ subscribers' = [subscribers EXCEPT ![t] = Append(@, cb)]
    /\ UNCHANGED <<running, last_heartbeat, datetime_now, emission, monitor>>
    /\ UNCHANGED server_vars

\* unsubscribe(event_type, callback): every entry equal to callback goes.
Unsubscribe(t, cb) ==
    /\ subscribers' = [subscribers EXCEPT ![t] = SelectSeq(@, LAMBDA x : x # cb)]
    /\ UNCHANGED <<running, last_heartbeat, datetime_now, emission, monitor>>
    /\ UNCHANGED server_vars

\* emit_event, lines 68-71: the subscribers of the event's type, then those of
\* the wildcard, as the lists are at this moment.
Matching(t) == subscribers[t] \o subscribers[Wildcard]

\* emit_event is entered: the list is copied under the lock.
Begin(t, d) ==
    [pc |-> "loop", type |-> t, device_id |-> d, data |-> "json",
     callbacks |-> Matching(t),
     calls |-> <<>>, fate |-> "none", errors |-> 0, nowait |-> "none", after |-> {}]

\* The callback the emission of e is awaiting.
Awaited(e) == emission[e].calls[Len(emission[e].calls)]

\* Threads of the executor that are running a callback.
Busy ==
    Cardinality({e \in DOMAIN emission :
                    emission[e].pc = "await" /\ ~Awaited(e).is_coroutine})

\* emit_event(event) is entered: awaited by a task, directly or through
\* emit, or handed to an event loop by emit_nowait.
Emit(e, t) ==
    /\ emission[e].pc = "idle"
    /\ emission' = [emission EXCEPT ![e] = Begin(t, Device1)]
    /\ UNCHANGED <<subscribers, running, last_heartbeat, datetime_now, monitor>>
    /\ UNCHANGED server_vars

\* What an event carries as its data: a value json can write, a value it can
\* write only through default=str, a dict with a key that is no str, int,
\* float, bool or None.
DataKinds == {"json", "object", "bad_key"}

\* json.dumps(payload, ensure_ascii=False, default=str) of the payload made
\* from the event: default is not asked about the keys of a dict.
JsonDumps(data) == [ok |-> data # "bad_key"]

\* IoTPublisher(topic_root="coinvestigacion1")
topic_root == "coinvestigacion1"
Topic(device, leaf) == <<topic_root, device, leaf>>

\* The bound methods the publisher subscribes, all coroutine functions.
OnCvDataPoint == Callback("_on_cv_data_point", TRUE)
OnCvConfig == Callback("_on_cv_config", TRUE)
OnCvComplete == Callback("_on_cv_complete", TRUE)
PublisherCallbacks == {OnCvDataPoint, OnCvConfig, OnCvComplete}

\* The last part of the topic each of them publishes under.
TopicLeaf(cb) ==
    CASE cb = OnCvDataPoint -> "data_point"
      [] cb = OnCvConfig -> "config"
      [] cb = OnCvComplete -> "measurement_complete"

\* What the callback does with the event: a callback of the publisher
\* returns once the message is appended and raises what json.dumps raises,
\* a TypeError; any other callback does as it likes.
FatesOf(cb, em) ==
    IF cb \in PublisherCallbacks
    THEN IF JsonDumps(em.data).ok THEN {"returns"} ELSE {"raises"}
    ELSE Fates

\* Where emit_nowait is called: on the thread of a running event loop, on a
\* thread whose event loop is not running, on a thread that has no event loop.
Contexts == {"running_loop", "idle_loop", "no_loop"}

\* The emissions that are under way: handed to an event loop, or entered and
\* not ended.
UnderWay == {x \in DOMAIN emission : emission[x].pc \in {"scheduled", "loop", "await"}}

\* emit_nowait(event_type, data, device_id): the coroutine emit_event(ev) is
\* created and handed to an event loop, which enters it later.  With a
\* running loop the call returns at once; otherwise run_until_complete or
\* asyncio.run runs the coroutine and the call ends when emit_event has.
EmitNowait(e, t, ctx) ==
    /\ emission[e].pc = "idle"
    /\ emission' = [emission EXCEPT ![e] =
           [NoEmission EXCEPT !.pc = "scheduled", !.type = t, !.device_id = Device1,
                              !.data = "json",
                              !.nowait = IF ctx = "running_loop" THEN "returned" ELSE "waits",
                              !.after = UnderWay]]
    /\ UNCHANGED <<subscribers, running, last_heartbeat, datetime_now, monitor>>
    /\ UNCHANGED server_vars

\* The event loop runs the coroutine emit_nowait handed it: emit_event is
\* entered, and the list is copied under the lock as it is now.
Enter(e) ==
    LET em == emission[e]
    IN  /\ em.pc = "scheduled"
        /\ emission' = [emission EXCEPT ![e] =
               [em EXCEPT !.pc = "loop", !.callbacks = Matching(em.type)]]
        /\ UNCHANGED <<subscribers, running, last_heartbeat, datetime_now, monitor>>
        /\ UNCHANGED server_vars

\* The next callback of the copied list is invoked: a coroutine function is
\* awaited on the loop, any other callable is handed to the executor and
\* starts when one of its threads is free.  What the callback does is its own
\* affair; a callback of the publisher appends its message to published.
Invoke(e) ==
    LET em == emission[e]
    IN  /\ em.pc = "loop"
        /\ Len(em.calls) < Len(em.callbacks)
        /\ LET cb == em.callbacks[Len(em.calls) + 1]
           IN  /\ cb.is_coroutine \/ Busy < max_workers
               /\ \E f \in FatesOf(cb, em) :
                      emission' = [emission EXCEPT ![e] =
                          [em EXCEPT !.pc = "await", !.calls = Append(@, cb), !.fate = f]]
               /\ published' = IF cb \in PublisherCallbacks /\ JsonDumps(em.data).ok
                                THEN Append(published, Topic(em.device_id, TopicLeaf(cb)))
                                ELSE published
        /\ UNCHANGED <<subscribers, running, last_heartbeat, datetime_now, monitor>>
        /\ UNCHANGED <<handler_vars, pub_running, pub_pc>>

\* except Exception: the error is logged and the loop goes on.
Caught(em) == [em EXCEPT !.pc = "loop", !.fate = "none", !.errors = @ + 1]

\* An exception that is not derived from Exception passes the except clause
\* of line 83: it leaves emit_event, the callbacks still in the list are not
\* invoked, and run_until_complete and asyncio.run raise it in emit_nowait.
Passes(em) ==
    [em EXCEPT !.pc = "raised", !.fate = "none",
               !.nowait = IF @ = "waits" THEN "raised" ELSE @]

\* The awaited callback returns or raises; one that hangs does neither.
Finish(e) ==
    LET em == emission[e]
    IN  /\ em.pc = "await"
        /\ em.fate \in {"returns", "raises", "raises_base"}
        /\ emission' = [emission EXCEPT ![e] =
               CASE em.fate = "raises" -> Caught(em)
                 [] em.fate = "raises_base" -> Passes(em)
                 [] em.fate = "returns" -> [em EXCEPT !.pc = "loop", !.fate = "none"]]
        /\ UNCHANGED <<subscribers, running, last_heartbeat, datetime_now, monitor>>
        /\ UNCHANGED server_vars

\* The for loop is exhausted: emit_event returns.
Return(e) ==
    LET em == emission[e]
    IN  /\ em.pc = "loop"
        /\ Len(em.calls) = Len(em.callbacks)
        /\ emission' = [emission EXCEPT ![e] =
               [em EXCEPT !.pc = "returned",
                          !.nowait = IF @ = "waits" THEN "returned" ELSE @]]
        /\ UNCHANGED <<subscribers, running, last_heartbeat, datetime_now, monitor>>
        /\ UNCHANGED server_vars

\* The coroutine of e is gone: it is no longer an earlier emission of any.
Forget(e) ==
    [x \in DOMAIN emission |->
        IF x = e THEN NoEmission ELSE [emission[x] EXCEPT !.after = @ \ {e}]]

\* The task that awaited the emission goes on, or takes the exception that
\* left emit_event; the future of run_coroutine_threadsafe, which nobody
\* reads, keeps either.
Collect(e) ==
    /\ emission[e].pc \in {"returned", "raised"}
    /\ emission' = Forget(e)
    /\ UNCHANGED <<subscribers, running, last_heartbeat, datetime_now, monitor>>
    /\ UNCHANGED server_vars

\* datetime.now(): time does not run backwards.
DatetimeNow(t) ==
    /\ t \in Times
    /\ t >= datetime_now
    /\ datetime_now' = t

\* d[key] = value on the items of a dict: a known key keeps its place, a new
\* one goes to the end.
SetItem(items, key, value) ==
    IF \E i \in 1..Len(items) : items[i][1] = key
    THEN [i \in 1..Len(items) |->
             IF items[i][1] = key THEN <<key, value>> ELSE items[i]]
    ELSE Append(items, <<key, value>>)

\* register_heartbeat(device_id)
RegisterHeartbeat(d) ==
    /\ \E t \in Times :
           /\ DatetimeNow(t)
           /\ last_heartbeat' = SetItem(last_heartbeat, d, t)
    /\ UNCHANGED <<subscribers, running, emission, monitor>>
    /\ UNCHANGED server_vars

\* start(): a second call while running does nothing; otherwise the flag is
\* set and a new task runs _heartbeat_monitor, whatever became of the tasks
\* created by earlier calls.
Start ==
    /\ ~running
    /\ running' = TRUE
    /\ \E m \in DOMAIN monitor :
           /\ monitor[m].pc = "off"
           /\ \A o \in DOMAIN monitor : monitor[o].pc = "off" => o[2] >= m[2]
           /\ monitor' = [monitor EXCEPT ![m].pc = "top"]
    /\ UNCHANGED <<subscribers, last_heartbeat, datetime_now, emission>>
    /\ UNCHANGED server_vars

\* stop()
Stop ==
    /\ running' = FALSE
    /\ UNCHANGED <<subscribers, last_heartbeat, datetime_now, emission, monitor>>
    /\ UNCHANGED server_vars

\* list(self._last_heartbeat.items())
HeartbeatItems == last_heartbeat

\* timedelta.seconds: the seconds of the difference without its days and
\* without its fraction of a second.
Seconds(delta) == (delta \div UnitsPerSecond) % SecondsPerDay

\* Line 97 with total_seconds() in the place of seconds.
Overdue_TotalSeconds(now, last_beat) ==
    now - last_beat > heartbeat_timeout * UnitsPerSecond

\* (now - last_beat).seconds > self._heartbeat_timeout
Overdue(now, last_beat) == Seconds(now - last_beat) > heartbeat_timeout

\* _heartbeat_monitor, lines 92-93: the while test, and now.
SweepTop(m) ==
    /\ monitor[m].pc = "top"
    /\ IF running
       THEN \E t \in Times :
                /\ DatetimeNow(t)
                /\ monitor' = [monitor EXCEPT ![m] =
                       [pc |-> "items", now |-> t, items |-> <<>>]]
       ELSE /\ monitor' = [monitor EXCEPT ![m].pc = "ended"]
            /\ UNCHANGED datetime_now
    /\ UNCHANGED <<subscribers, running, last_heartbeat, emission>>
    /\ UNCHANGED server_vars

\* _heartbeat_monitor, lines 94-95: the items are copied under the lock, as
\* they are by then.
SweepItems(m) ==
    /\ monitor[m].pc = "items"
    /\ monitor' = [monitor EXCEPT ![m] = [@ EXCEPT !.pc = "scan", !.items = HeartbeatItems]]
    /\ UNCHANGED <<subscribers, running, last_heartbeat, datetime_now, emission>>
    /\ UNCHANGED server_vars

\* _heartbeat_monitor, lines 96-103: the next item; a device that is overdue
\* has its device_timeout event emitted and awaited.
SweepScan(m) ==
    LET mo == monitor[m]
    IN  /\ mo.pc = "scan"
        /\ IF mo.items = <<>>
           THEN /\ monitor' = [monitor EXCEPT ![m].pc = "sleep"]
                /\ UNCHANGED emission
           ELSE IF Overdue(mo.now, Head(mo.items)[2])
                THEN /\ emission' = [emission EXCEPT ![m] =
                            Begin(DeviceTimeout, Head(mo.items)[1])]
                     /\ monitor' = [monitor EXCEPT ![m] =
                            [mo EXCEPT !.pc = "emit", !.items = Tail(@)]]
                ELSE /\ monitor' = [monitor EXCEPT ![m].items = Tail(@)]
                     /\ UNCHANGED emission
        /\ UNCHANGED <<subscribers, running, last_heartbeat, datetime_now>>
        /\ UNCHANGED server_vars

\* The awaited emit_event returned: the for loop goes on.
SweepResume(m) ==
    /\ monitor[m].pc = "emit"
    /\ emission[m].pc = "returned"
    /\ emission' = Forget(m)
    /\ monitor' = [monitor EXCEPT ![m].pc = "scan"]
    /\ UNCHANGED <<subscribers, running, last_heartbeat, datetime_now>>
    /\ UNCHANGED server_vars

\* The awaited emit_event was left by an exception: it leaves
\* _heartbeat_monitor as well, and the task is over while _running stays set.
SweepAbort(m) ==
    /\ monitor[m].pc = "emit"
    /\ emission[m].pc = "raised"
    /\ emission' = Forget(m)
    /\ monitor' = [monitor EXCEPT ![m].pc = "failed"]
    /\ UNCHANGED <<subscribers, running, last_heartbeat, datetime_now>>
    /\ UNCHANGED server_vars

\* await asyncio.sleep(1) is over.
SweepWake(m) ==
    /\ monitor[m].pc = "sleep"
    /\ monitor' = [monitor EXCEPT ![m].pc = "top"]
    /\ UNCHANGED <<subscribers, running, last_heartbeat, datetime_now, emission>>
    /\ UNCHANGED server_vars

\* A step of the event loop or of the executor on the emission of e.
DeliveryStep(e) == Invoke(e) \/ Finish(e) \/ Return(e)

\* A step of the monitor task m.
MonitorStep(m) ==
    \/ SweepTop(m)
    \/ SweepItems(m)
    \/ SweepScan(m)
    \/ SweepResume(m)
    \/ SweepAbort(m)
    \/ SweepWake(m)

\* Subscriptions come and go while events are emitted and delivered.
NextEvents ==
    \/ \E t \in EventTypes, cb \in Callbacks : Subscribe(t, cb) \/ Unsubscribe(t, cb)
    \/ \E e \in Callers, t \in EventTypes : Emit(e, t)
    \/ \E e \in Callers : Collect(e) \/ DeliveryStep(e)

SpecEvents == Init /\ [][NextEvents]_vars

----------------------------------------------------------------------------
(* _recv_header, byte by byte, with a peer that sends whatever it likes.   *)

\* max_header_bytes: int = 64 * 1024
max_header_bytes == 65536

\* What conn.recv(1) returns: a newline, another byte, or nothing once the
\* peer has closed.
Recv1 == {"newline", "byte", "closed"}

\* The loop stops with a cap of one byte less.
OverCap_AtCap(n) == n >= max_header_bytes

\* len(header_data) > max_header_bytes
OverCap(n) == n > max_header_bytes

\* One turn of the while loop: recv(1); nothing ends the loop; the byte is
\* appended; the loop ends over the cap or after a newline.
RecvHeaderByte ==
    /\ header_read.at = "recv"
    /\ \E chunk \in Recv1 :
           header_read' =
               IF chunk = "closed"
               THEN [header_read EXCEPT !.at = "decode"]
               ELSE [at |-> IF OverCap(header_read.len + 1) \/ chunk = "newline"
                            THEN "decode" ELSE "recv",
                     len |-> header_read.len + 1]
    /\ UNCHANGED <<pc, header, out, exc, launched, transfer_vars, registry_vars,
                   sensor_vars, accepted, stalled, hook, snapshot_writable>>
    /\ UNCHANGED <<bus_vars, pub_vars>>

NextHeader == RecvHeaderByte

SpecHeader == Init /\ [][NextHeader]_vars

----------------------------------------------------------------------------
(* IoTPublisher on the shared event manager, next to another subscriber.   *)

\* Messages the publisher keeps.
MaxPublished == 2

\* The subscriptions start() makes and stop() takes back, in the order of
\* the code.
PubSubscriptions ==
    <<[type |-> "cv_data_point", callback |-> OnCvDataPoint],
      [type |-> "cv_config", callback |-> OnCvConfig],
      [type |-> "cv_measurement_complete", callback |-> OnCvComplete]>>

\* IoTPublisher.start(), lines 27-29: a call while running does nothing;
\* otherwise _running is set.
PubStart ==
    /\ pub_pc = PubIdle
    /\ ~pub_running
    /\ pub_running' = TRUE
    /\ pub_pc' = [at |-> "start", done |-> 0]
    /\ UNCHANGED bus_vars
    /\ UNCHANGED <<handler_vars, published>>

\* IoTPublisher.start(), lines 31-33: the next call of event_manager.subscribe.
PubSubscribe ==
    /\ pub_pc.at = "start"
    /\ LET sub == PubSubscriptions[pub_pc.done + 1]
       IN  subscribers' = [subscribers EXCEPT ![sub.type] = Append(@, sub.callback)]
    /\ pub_pc' = IF pub_pc.done + 1 = Len(PubSubscriptions)
                 THEN PubIdle
                 ELSE [pub_pc EXCEPT !.done = @ + 1]
    /\ UNCHANGED <<running, last_heartbeat, datetime_now, emission, monitor>>
    /\ UNCHANGED <<handler_vars, pub_running, published>>

\* IoTPublisher.stop(), lines 37-38: a call while not running does nothing.
PubStop ==
    /\ pub_pc = PubIdle
    /\ pub_running
    /\ pub_pc' = [at |-> "stop", done |-> 0]
    /\ UNCHANGED bus_vars
    /\ UNCHANGED <<handler_vars, pub_running, published>>

\* IoTPublisher.stop(), lines 41-43: the next call of event_manager.unsubscribe.
PubUnsubscribe ==
    /\ pub_pc.at = "stop"
    /\ pub_pc.done < Len(PubSubscriptions)
    /\ LET sub == PubSubscriptions[pub_pc.done + 1]
       IN  subscribers' = [subscribers EXCEPT ![sub.type] =
                               SelectSeq(@, LAMBDA x : x # sub.callback)]
    /\ pub_pc' = [pub_pc EXCEPT !.done = @ + 1]
    /\ UNCHANGED <<running, last_heartbeat, datetime_now, emission, monitor>>
    /\ UNCHANGED <<handler_vars, pub_running, published>>

\* IoTPublisher.stop(), line 46: _running is cleared.
PubStopped ==
    /\ pub_pc = [at |-> "stop", done |-> Len(PubSubscriptions)]
    /\ pub_running' = FALSE
    /\ pub_pc' = PubIdle
    /\ UNCHANGED bus_vars
    /\ UNCHANGED <<handler_vars, published>>

\* The event types the publisher subscribes to.
PublishedTypes == {"cv_data_point"} \cup PublisherTypes

\* emit_event for an event of type t of device d that carries data.
EmitData(e, t, d, data) ==
    /\ emission[e].pc = "idle"
    /\ Len(published) < MaxPublished
    /\ emission' = [emission EXCEPT ![e] = [Begin(t, d) EXCEPT !.data = data]]
    /\ UNCHANGED <<subscribers, running, last_heartbeat, datetime_now, monitor>>
    /\ UNCHANGED server_vars

NextPublisher ==
    \/ PubStart
    \/ PubSubscribe
    \/ PubStop
    \/ PubUnsubscribe
    \/ PubStopped
    \/ \E cb \in {OnBlocking} : Subscribe("cv_data_point", cb)
    \/ \E e \in Callers, t \in PublishedTypes, d \in Devices, data \in DataKinds :
           EmitData(e, t, d, data)
    \/ \E e \in Callers : Collect(e) \/ DeliveryStep(e)

SpecPublisher == Init /\ [][NextPublisher]_vars

----------------------------------------------------------------------------
(* Threads that call emit_nowait, each from any of the three contexts.     *)

\* A step of the event loop on the event emit_nowait handed it.
NowaitStep(e) == Enter(e) \/ DeliveryStep(e)

NextNowait ==
    \/ \E e \in Threads, ctx \in Contexts : EmitNowait(e, "cv_data_point", ctx)
    \/ \E cb \in Callbacks : Unsubscribe("cv_data_point", cb)
    \/ \E e \in Threads : Collect(e) \/ NowaitStep(e)

----------------------------------------------------------------------------
(* The heartbeat sweep next to a task that emits, with the subscriptions   *)
(* made before the manager is started.                                      *)


\* Both callbacks subscribed to every type that is not the wildcard, in either
\* order, with or without a subscriber of the wildcard.
SweepSetups ==
    {[t \in AllEventTypes |->
         IF t = Wildcard THEN w ELSE IF t \in EventTypes THEN l ELSE <<>>] :
        l \in {<<OnData, OnBlocking>>, <<OnBlocking, OnData>>}, w \in {<<>>, <<OnData>>}}

InitSweep ==
    /\ InitServer
    /\ hook = "ok"
    /\ snapshot_writable = TRUE
    /\ subscribers \in SweepSetups
    /\ pub_running = FALSE
    /\ published = <<>>
    /\ pub_pc = PubIdle
    /\ running = FALSE
    /\ last_heartbeat = <<>>
    /\ datetime_now = 0
    /\ emission = [e \in Emitters |-> NoEmission]
    /\ monitor = [m \in Monitors |-> NoMonitor]

\* The event loops run every coroutine that can go on.
SpecNowait ==
    /\ InitSweep
    /\ [][NextNowait]_vars
    /\ \A e \in Threads : WF_vars(NowaitStep(e))

NextSweep ==
    \/ \E e \in Callers, t \in EventTypes : Emit(e, t)
    \/ \E e \in Callers : Collect(e)
    \/ \E e \in Emitters : DeliveryStep(e)
    \/ RegisterHeartbeat(Device1)
    \/ Start
    \/ Stop
    \/ \E m \in Monitors : MonitorStep(m)

\* The monitor tasks of a manager that is stopped and started again.
Loops == {<<"monitor", k>> : k \in 1..MaxLoops}

\* A manager with one subscriber of device_timeout and no task yet.
InitRestart ==
    /\ InitServer
    /\ hook = "ok"
    /\ snapshot_writable = TRUE
    /\ subscribers = [t \in AllEventTypes |->
                          IF t = DeviceTimeout THEN <<OnData>> ELSE <<>>]
    /\ pub_running = FALSE
    /\ published = <<>>
    /\ pub_pc = PubIdle
    /\ running = FALSE
    /\ last_heartbeat = <<>>
    /\ datetime_now = 0
    /\ emission = [e \in Loops |-> NoEmission]
    /\ monitor = [m \in Loops |-> NoMonitor]

\* start(), stop() and the heartbeats of the devices in any order while the
\* monitor tasks run.
NextRestart ==
    \/ Start
    \/ Stop
    \/ \E d \in Devices : RegisterHeartbeat(d)
    \/ \E m \in Loops : MonitorStep(m) \/ DeliveryStep(m)

SpecRestart == InitRestart /\ [][NextRestart]_vars

\* The event loop runs every coroutine that can go on, and the executor every
\* callback that returns or raises.
SpecSweep ==
    /\ InitSweep
    /\ [][NextSweep]_vars
    /\ \A e \in Emitters : WF_vars(DeliveryStep(e))
    /\ \A m \in Monitors : WF_vars(MonitorStep(m))

----------------------------------------------------------------------------
(* Vocabulary of the properties. *)

\* The whole body the peer of c delivers before it closes.
Body(c) == delivered[c] \o stream[c]

\* size is a JSON integer that is not negative.
NonNegativeInt(v) == v.t = "int" /\ v.n >= 0

\* The handler of c goes on to the Transfer Engine.
IsTransfer(c) == Route(header[c]) \in TransferRoutes

\* The handler of c has opened its destination file.
FileOpened(c) ==
    \/ pc[c] \in {"recv", "verify"}
    \/ pc[c] = "closed" /\ Len(out[c]) = 2

\* The handler of c is past the router, in the Transfer Engine.
TransferStarted(c) == pc[c] \in {"open", "recv", "verify"} \/ FileOpened(c)

\* The handler of c ends in this step.
Closes(c) == pc[c] # "closed" /\ pc'[c] = "closed"

\* The last token sent on c, "" when none was.
LastToken(c) == IF out[c] = <<>> THEN "" ELSE out[c][Len(out[c])]

KnownActions == {JStr("ping"), JStr("hello"), JStr("data"), JStr("send_file")}

----------------------------------------------------------------------------
\* The peer of c names a file (a string that is not empty) and sends a body of
\* the declared size and the declared digest.
DeliversDeclared(c) ==
    /\ IsTransfer(c)
    /\ header[c].filename.t = "str"
    /\ header[c].filename.s # ""
    /\ NonNegativeInt(header[c].size)
    /\ Len(Body(c)) = header[c].size.n
    /\ Hexdigest(Body(c)) = header[c].checksum

(* C1.  A transfer whose peer delivers exactly the declared number of      *)
(* bytes, with the declared digest, is answered ACK and then EOF_OK, and   *)
(* the destination file then has the declared length.  Stated at the step  *)
(* in which the handler ends.                                               *)
C1_TransferVerified ==
    [][\A c \in Conns :
          (Closes(c) /\ DeliversDeclared(c)) =>
              /\ out'[c] = <<"ACK", "EOF_OK">>
              /\ FilePath(header[c]) \in DOMAIN files'
              /\ Len(files'[FilePath(header[c])]) = header[c].size.n]_vars

(* C2.  During and after a transfer with a declared size that is a         *)
(* non-negative integer, the byte counter never exceeds the declared size, *)
(* never decreases, and the destination file holds as many bytes as the    *)
(* counter says (counting the bytes written to the file object and not yet *)
(* flushed).                                                                *)
C2_ByteAccounting ==
    [][\A c \in Conns :
          /\ (pc[c] # "closed" => total_received'[c] >= total_received[c])
          /\ (FileOpened(c)' /\ NonNegativeInt(header'[c].size)) =>
                 /\ total_received'[c] <= header'[c].size.n
                 /\ Len(files'[FilePath(header'[c])]) + Len(wbuf'[c])
                        = total_received'[c]]_vars

(* C3.  A transfer whose computed digest differs from the declared         *)
(* checksum ends with ERR_CHECKSUM, and the file is kept with exactly the  *)
(* bytes received.  Stated at the step that computes the digest.           *)
C3_ChecksumMismatch ==
    [][\A c \in Conns :
          (pc[c] = "verify" /\ pc'[c] # "verify"
              /\ Hexdigest(files[FilePath(header[c])]) # header[c].checksum) =>
              /\ out'[c] = <<"ACK", "ERR_CHECKSUM\n">>
              /\ pc'[c] = "closed"
              /\ files' = files
              /\ files[FilePath(header[c])] = delivered[c]]_vars

(* C4.  A transfer that ended with fewer bytes received than declared is   *)
(* never answered with EOF_OK.                                              *)
C4_ShortTransferNotOk ==
    \A c \in Conns :
        (pc[c] = "closed" /\ IsTransfer(c) /\ DeclaredSize(header[c]).ok
            /\ total_received[c] < DeclaredSize(header[c]).val) =>
            LastToken(c) # "EOF_OK"

(* C5.  The file a handler has opened for writing lies inside DEST_DIR,    *)
(* whatever filename the peer supplied.                                     *)
C5_DestinationInsideDestDir ==
    \A c \in Conns :
        pc[c] \in {"recv", "verify"} => Inside(DEST_DIR, FilePath(header[c]))

\* What the router's step on c leaves alone when it only answers and closes.
AnswersInvalidHeader(c) ==
    /\ out'[c] = <<"ERR_INVALID_HEADER\n">>
    /\ pc'[c] = "closed"
    /\ ~exc'[c]
    /\ UNCHANGED <<files, iot_devices, devices_file, launched>>
    /\ \A d \in Conns \ {c} :
          pc'[d] = pc[d] /\ out'[d] = out[d] /\ header'[d] = header[d]

\* The text of the header is a JSON text: json.loads decodes it and it holds
\* none of the constants that JSON does not have.
ValidJson(h) ==
    /\ h.form = "json"
    /\ h.word \notin PyConstants
    /\ \A v \in {h.action, h.serial, h.device_type, h.payload, h.filename, h.size,
                  h.checksum} : v.t # "nan"

\* The plain-text ping, in any letter case, which the router answers PONG
\* before it decodes anything.
TextPing(h) == h.form = "plain" /\ Lower(h.word) = "ping"

(* C6.  Every header that is not valid JSON is answered with exactly       *)
(* ERR_INVALID_HEADER, the handler ends without an exception reaching its  *)
(* outer except clause, and the step changes neither the registry, the     *)
(* snapshot, the files nor another connection.  Stated for every header    *)
(* text but the plain-text ping, whose answer is PONG by the protocol.     *)
C6_InvalidHeader ==
    [][\A c \in Conns :
          (pc[c] = "dispatch" /\ pc'[c] # "dispatch" /\ header[c].form # "none"
              /\ ~ValidJson(header[c]) /\ ~TextPing(header[c])) =>
              AnswersInvalidHeader(c)]_vars

\* The header is a transfer header: explicit, or legacy (the three fields and
\* no action).
TransferHeader(h) ==
    h.obj /\ (h.action = SendFile \/ (~Has(h.action) /\ HasTransferKeys(h)))

Unroutable(h) ==
    /\ h.form = "json"
    /\ \/ ~h.obj
       \/ h.obj /\ h.action \notin KnownActions
              /\ ~(~Has(h.action) /\ HasTransferKeys(h))
       \/ TransferHeader(h) /\ (~HasTransferKeys(h) \/ ~NonNegativeInt(h.size))

(* C7.  A request whose header decodes as JSON but cannot be routed - a    *)
(* value that is no object, an action the server does not know, or a       *)
(* transfer header with a field missing or a size that is not a            *)
(* non-negative integer - starts no transfer and is answered with exactly  *)
(* one token, ERR_UNKNOWN_ACTION or ERR_INCOMPLETE_HEADER.                  *)
C7_UnroutableAnswered ==
    \A c \in Conns :
        Unroutable(header[c]) =>
            /\ ~TransferStarted(c)
            /\ pc[c] = "closed" =>
                   /\ Len(out[c]) = 1
                   /\ out[c][1] \in {"ERR_UNKNOWN_ACTION\n", "ERR_INCOMPLETE_HEADER\n"}

(* C8.  The legacy route is taken only by objects without an action field  *)
(* that hold filename, size and checksum; a header with an action the      *)
(* server does not know is answered ERR_UNKNOWN_ACTION and starts no       *)
(* transfer, with or without the three fields.                              *)
C8_ExplicitActionWins ==
    \A c \in Conns :
        LET h == header[c]
        IN  /\ (TransferStarted(c) /\ h.action # SendFile) =>
                   (~Has(h.action) /\ HasTransferKeys(h))
            /\ (h.form = "json" /\ h.obj /\ Has(h.action) /\ h.action \notin KnownActions) =>
                   /\ ~TransferStarted(c)
                   /\ pc[c] = "closed" => out[c] = <<"ERR_UNKNOWN_ACTION\n">>

\* The handler of c stores its record in this step.
StoresHello(c) == pc[c] = "hello_update" /\ pc'[c] = "save_open"

(* C9.  Hello requests, each answered ACK_HELLO, leave one registry entry  *)
(* per serial; storing a hello puts the peer IP, the device type and the   *)
(* time of that hello under its serial and adds an entry only for a new    *)
(* serial; no entry is ever removed and the last_seen of an entry never    *)
(* decreases.                                                               *)
C9_HelloIdempotent ==
    [][/\ Cardinality(Keys(iot_devices')) = Len(iot_devices')
       /\ \A k \in Keys(iot_devices) :
             /\ k \in Keys(iot_devices')
             /\ Lookup(iot_devices', k).last_seen >= Lookup(iot_devices, k).last_seen
       /\ \A c \in Conns :
             /\ StoresHello(c) =>
                   LET k == DictKey(SerialOf(header[c]))
                   IN  /\ Keys(iot_devices') = Keys(iot_devices) \cup {k}
                       /\ Lookup(iot_devices', k).ip = PeerIp(c)
                       /\ Lookup(iot_devices', k).device_type = DeviceTypeOf(header[c])
             /\ (pc[c] = "hello_ack" /\ pc'[c] = "closed") => out'[c] = <<"ACK_HELLO\n">>]_vars

\* The handler of c has stored its record and has not finished the snapshot.
InPersistSection(c) == pc[c] \in {"save_open", "save_dump", "save_item", "save_close"}

\* A hello handler runs on c.
HelloInProgress(c) == pc[c] \notin {"idle", "closed"}

\* The snapshot at rest reloads to the registry.
SnapshotAtRest ==
    ((\A c \in Conns : ~HelloInProgress(c))
        /\ iot_devices # NoDevices
        /\ \A k \in Keys(iot_devices) : k.t = "str") =>
        /\ devices_file.exists
        /\ WellFormed(devices_file.text)
        /\ DictEq(JsonLoad(devices_file), iot_devices)

(* C10.  No two hello handlers are at once between the store of their      *)
(* record and the end of the snapshot write, and whenever no hello handler *)
(* is in progress the snapshot file is one complete map that reloads to a  *)
(* map equal to the registry (for a registry whose serials are strings).   *)
C10_SnapshotSerialized ==
    /\ \A c \in Conns : \A d \in Conns \ {c} :
          ~(InPersistSection(c) /\ InPersistSection(d))
    /\ SnapshotAtRest

\* The handler of c has answered a hello that names no serial.
AnonymousHelloDone(c) ==
    /\ pc[c] = "closed"
    /\ Route(header[c]) = "hello"
    /\ ~Has(header[c].serial)

(* C11.  A hello without a serial field is answered ACK_HELLO and the      *)
(* device is then registered under the serial "UNKNOWN"; when the device   *)
(* type is missing too, the entry records the device type "UNKNOWN".       *)
C11_HelloDefaults ==
    \A c \in Conns :
        AnonymousHelloDone(c) =>
            /\ out[c] = <<"ACK_HELLO\n">>
            /\ JStr("UNKNOWN") \in Keys(iot_devices)
            /\ ~Has(header[c].device_type) =>
                   Lookup(iot_devices, JStr("UNKNOWN")).device_type = JStr("UNKNOWN")

\* The handler of c has answered a data request with ACK_DATA.
DataAcked(c) ==
    /\ pc[c] = "closed"
    /\ Route(header[c]) = "data"
    /\ out[c] = <<"ACK_DATA\n">>

\* The key the reading of c is stored under in datos_sensores.json.
ReadingKey(c) == KeyText(SerialOf(header[c]))

\* No handler is running.
AtRest == \A c \in Conns : pc[c] \in {"idle", "closed"}

(* C12.  Once every data request has been answered ACK_DATA, the store     *)
(* holds, for the serial of each acknowledged request that no other        *)
(* acknowledged request shares, the payload of that request: a reading of  *)
(* one serial neither removes nor alters the entry of another serial.      *)
C12_LastValueWins ==
    \A c \in Conns :
        (/\ AtRest
         /\ DataAcked(c)
         /\ Has(header[c].serial) /\ Hashable(header[c].serial)
         /\ \A d \in Conns \ {c} : ~(DataAcked(d) /\ ReadingKey(d) = ReadingKey(c))) =>
            /\ ReadingKey(c) \in Keys(JsonLoad(sensor_file))
            /\ Lookup(JsonLoad(sensor_file), ReadingKey(c)).payload = PayloadOf(header[c])

\* The data request of c lacks the serial or the payload.
LacksDataField(c) ==
    /\ Route(header[c]) = "data"
    /\ ~Has(header[c].serial) \/ ~Has(header[c].payload)

(* C13.  A data request that lacks the serial or the payload is answered   *)
(* with one error token, not ACK_DATA, and its handler never writes the    *)
(* sensor-data store.                                                       *)
C13_IncompleteDataRejected ==
    \A c \in Conns :
        LacksDataField(c) =>
            /\ pc[c] \notin {"data_open", "data_close"}
            /\ pc[c] = "closed" =>
                   /\ Len(out[c]) = 1
                   /\ out[c][1] \in {"ERR_UNKNOWN_ACTION\n", "ERR_INCOMPLETE_HEADER\n"}

\* The header is a ping: the text ping in any letter case, or a JSON object
\* whose action is "ping".
IsPing(h) ==
    \/ h.form = "plain" /\ Lower(h.word) = "ping"
    \/ h.form = "json" /\ h.obj /\ h.action = JStr("ping")

(* C14.  The step that handles a ping - in text or in JSON - answers       *)
(* exactly PONG, closes the connection, and changes neither the device     *)
(* registry and its snapshot, nor the sensor-data store, nor any file.     *)
C14_PingAnswered ==
    [][\A c \in Conns :
          (pc[c] = "dispatch" /\ pc'[c] # "dispatch" /\ IsPing(header[c])) =>
              /\ out'[c] = <<"PONG\n">>
              /\ pc'[c] = "closed"
              /\ ~exc'[c]
              /\ UNCHANGED <<iot_devices, devices_file, sensor_file, files>>]_vars

\* A JSON ping that carries transfer fields has been answered while the other
\* connection has received bytes of a file.
C14_Witness ==
    \E c \in Conns :
        /\ pc[c] = "closed"
        /\ IsPing(header[c])
        /\ Has(header[c].filename)
        /\ out[c] = <<"PONG\n">>
        /\ \E d \in Conns \ {c} : pc[d] = "recv" /\ total_received[d] > 0

\* The responses a handler can have sent: none, one immediate token, or ACK
\* followed by at most one verdict.
Responses ==
    {<<>>, <<"ACK">>, <<"ACK", "EOF_OK">>, <<"ACK", "ERR_CHECKSUM\n">>}
        \cup {<<t>> : t \in {"PONG\n", "ERR_INVALID_HEADER\n", "ERR_INCOMPLETE_HEADER\n",
                             "ERR_UNKNOWN_ACTION\n", "ACK_HELLO\n", "ACK_DATA\n"}}

\* The handler of c can take a step.
CanStep(c) ==
    \/ pc[c] \in {"dispatch", "open", "verify"}
    \/ pc[c] \in {"hello_stamp", "hello_update", "save_open", "save_dump", "save_item", "save_close",
                  "hello_ack"}
    \/ pc[c] \in {"data_save", "data_open", "data_close", "data_ack"}
    \/ pc[c] = "recv" /\ (MoreToRead(c) \/ LoopEnds(c))

\* Every handler that has not ended can go on, a handler that met an
\* exception has closed its connection, and what was sent is one response.
EndsClosed ==
    \A c \in Conns :
        /\ pc[c] \notin {"idle", "closed"} => CanStep(c)
        /\ exc[c] => pc[c] = "closed"
        /\ out[c] \in Responses

\* On a closed connection nothing more is sent or read, and it stays closed.
ClosedIsFinal ==
    \A c \in Conns :
        pc[c] = "closed" =>
            /\ pc'[c] = "closed"
            /\ out'[c] = out[c]
            /\ stream'[c] = stream[c]
            /\ total_received'[c] = total_received[c]
            /\ header'[c] = header[c]

(* C15.  Every handler routes one request at most and ends with its        *)
(* connection closed, whether it ends on an empty connection, after a      *)
(* terminal response or by an exception; after that nothing is read from   *)
(* or written to the connection.                                            *)
C15_OneRequestThenClosed == []EndsClosed /\ [][ClosedIsFinal]_vars

\* A handler ended by an exception after it had sent ACK, and its connection
\* is closed with bytes of the peer left unread.
C15_Witness ==
    \E c \in Conns :
        /\ pc[c] = "closed"
        /\ exc[c]
        /\ out[c] = <<"ACK">>
        /\ stream[c] # <<>>

\* The handler of c waits for bytes of a peer that sends none.
Blocked(c) ==
    \/ pc[c] = "recv_header"
    \/ pc[c] = "recv" /\ stalled[c] /\ ~MoreToRead(c) /\ ~LoopEnds(c)

\* The handler of c runs for a peer that sent its request and closes.
WellBehaved(c) == pc[c] \notin {"idle", "closed", "recv_header"} /\ ~stalled[c]

(* C16.  Whatever the other peers do, stalling for ever included, a peer   *)
(* that connects is accepted, and a request of a peer that does not stall  *)
(* runs to its handler's end with the connection closed.                    *)
C16_StalledPeerBlocksNobody ==
    \A c \in Conns :
        /\ (pc[c] = "idle") ~> (pc[c] # "idle")
        /\ WellBehaved(c) ~> (pc[c] = "closed")

\* One handler is blocked on a stalled peer while the other has been served
\* to the end of a file transfer.
C16_Witness ==
    \E c \in Conns : \E d \in Conns \ {c} :
        /\ Blocked(d)
        /\ pc[c] = "closed"
        /\ ~stalled[c]
        /\ out[c] = <<"ACK", "EOF_OK">>

\* The verdicts of a transfer.
Verdicts == {"EOF_OK", "ERR_CHECKSUM\n"}

(* C17.  Whatever the collaborators do - the snapshot cannot be written,   *)
(* the session hook is missing, raises or never returns - a hello that has *)
(* been handled was answered ACK_HELLO and a transfer that has been        *)
(* handled was answered ACK and then a verdict.                             *)
C17_CollaboratorsSwallowed ==
    \A c \in Conns :
        pc[c] = "closed" =>
            /\ Route(header[c]) = "hello" => out[c] = <<"ACK_HELLO\n">>
            /\ Route(header[c]) \in TransferRoutes =>
                   /\ Len(out[c]) = 2
                   /\ out[c][1] = "ACK"
                   /\ out[c][2] \in Verdicts

----------------------------------------------------------------------------
(* Vocabulary of the event manager's properties. *)

\* The elements of a sequence.
Range(q) == {q[i] : i \in 1..Len(q)}

\* The callbacks subscribed to type t or to the wildcard.
SubscribedTo(t) == Range(subscribers[t]) \cup Range(subscribers[Wildcard])

\* emit_event is entered for e in this step.
Enters(e) == emission[e].pc \in {"idle", "scheduled"} /\ emission'[e].pc = "loop"

\* The emit_event of e goes on in this step.
GoesOn(e) == emission[e].pc \in {"loop", "await"} /\ emission'[e].pc # "idle"

\* emit_event has ended for e: it returned, or an exception left it.
Ended(e) == emission[e].pc \in {"returned", "raised"}

\* The callbacks invoked so far for the event of e.
Called(e) == Range(emission[e].calls)

\* emit_event takes the callbacks subscribed at the moment it is entered.
TakesSubscribed ==
    \A e \in Emitters :
        /\ Enters(e) =>
               /\ Range(emission'[e].callbacks) = SubscribedTo(emission'[e].type)
               /\ emission'[e].calls = <<>>
        /\ GoesOn(e) =>
               /\ emission'[e].callbacks = emission[e].callbacks
               /\ emission'[e].type = emission[e].type

\* Only callbacks that were taken are invoked, and all of them have been when
\* emit_event has ended.
InvokesTaken ==
    \A e \in Emitters :
        /\ Called(e) \subseteq Range(emission[e].callbacks)
        /\ Ended(e) => Called(e) = Range(emission[e].callbacks)

(* C18.  emit_event(e) invokes exactly the callbacks that are subscribed   *)
(* to e.type or to the wildcard when it is entered: all of them have been  *)
(* invoked when it has ended, whether it returned or was left by an        *)
(* exception, and no other callback is ever invoked for e.                  *)
C18_InvokesMatching == []InvokesTaken /\ [][TakesSubscribed]_vars

\* The callback awaited for e raises in this step.
RaisesNow(e) ==
    /\ emission[e].pc = "await"
    /\ emission[e].fate \in {"raises", "raises_base"}
    /\ emission'[e] # emission[e]

\* Firstly no exception leaves emit_event or emit_nowait; secondly an
\* emit_event that has returned invoked every callback it took, whatever they
\* raised; thirdly a monitor task that emitted a timeout is still waiting for
\* that emit_event or going on with its sweep, and no monitor task is ended
\* by an exception.
ExceptionsStayInside ==
    /\ \A e \in Emitters : emission[e].pc # "raised" /\ emission[e].nowait # "raised"
    /\ \A e \in Emitters :
           emission[e].pc = "returned" => emission[e].calls = emission[e].callbacks
    /\ \A m \in Monitors :
           /\ monitor[m].pc = "emit" => emission[m].pc \in {"loop", "await", "returned"}
           /\ monitor[m].pc # "failed"

\* When a callback raises, the error is logged and the loop goes on to the
\* callbacks that are left.
LoopGoesOn ==
    \A e \in Emitters :
        RaisesNow(e) =>
            /\ emission'[e].pc = "loop"
            /\ emission'[e].errors = emission[e].errors + 1
            /\ emission'[e].callbacks = emission[e].callbacks
            /\ emission'[e].calls = emission[e].calls

(* C19.  A subscriber that raises, synchronous or asynchronous, does not   *)
(* keep the other subscribers of the event from being invoked, and its     *)
(* exception reaches neither the caller of emit_event or emit_nowait nor   *)
(* the heartbeat sweep, which goes on.                                      *)
C19_RaisingSubscriberSwallowed == []ExceptionsStayInside /\ [][LoopGoesOn]_vars

\* emit_event is at work for e.
Pending(e) == emission[e].pc \in {"loop", "await"}

\* Every callback taken for the event of e has been invoked.
AllInvoked(e) == Len(emission[e].calls) = Len(emission[e].callbacks)

\* The emission of e awaits a coroutine that never returns.
CoroutineHangs(e) ==
    /\ emission[e].pc = "await"
    /\ emission[e].fate = "hangs"
    /\ Awaited(e).is_coroutine

(* C20.  A synchronous subscriber that is slow or never returns holds      *)
(* nothing up: every subscriber of an event that is being delivered is     *)
(* invoked in the end, and a sweep that emitted a timeout event goes on to *)
(* its later events, unless a coroutine of that very emission hangs or an  *)
(* exception leaves it.                                                     *)
C20_SynchronousSubscriberStallsNothing ==
    /\ \A e \in Emitters :
           Pending(e) ~> (AllInvoked(e) \/ CoroutineHangs(e) \/ emission[e].pc = "raised")
    /\ \A m \in Monitors :
           (monitor[m].pc = "emit") ~> (monitor[m].pc # "emit" \/ CoroutineHangs(m))

\* emit_nowait has been called for e and has not returned.
InsideEmitNowait(e) == emission[e].nowait = "waits"

\* No callback has been invoked for an event whose emit_nowait has not
\* returned.
ReturnsBeforeCallbacks ==
    \A e \in Threads : InsideEmitNowait(e) => emission[e].calls = <<>>

(* C21.  emit_nowait returns without waiting for a subscriber's callback   *)
(* to run, from whatever thread it is called, and the event it was given   *)
(* is delivered in the end to every subscriber taken for it, unless one of *)
(* them never returns.                                                      *)
C21_EmitNowaitNeverWaits ==
    /\ []ReturnsBeforeCallbacks
    /\ \A e \in Threads :
           Pending(e) ~> (AllInvoked(e) \/ emission[e].fate = "hangs")

\* The callbacks taken for the event of e that have not been invoked yet.
StillToCall(e) ==
    {emission[e].callbacks[i] :
        i \in (Len(emission[e].calls) + 1)..Len(emission[e].callbacks)}

(* C22.  A callback subscribed to two events is invoked for them in the    *)
(* order in which they were emitted: it has not been invoked for the later *)
(* event while it is still to be invoked for an earlier one, also when     *)
(* another subscriber of the earlier event is slow.                        *)
C22_DeliveredInEmissionOrder ==
    \A e \in Emitters :
        \A earlier \in emission[e].after :
            Called(e) \cap StillToCall(earlier) = {}

\* The sweep of m handles the next item of its list in this step.
HandlesItem(m) ==
    /\ monitor[m].pc = "scan"
    /\ monitor[m].items # <<>>
    /\ monitor'[m] # monitor[m]

\* The device of that item and how long it has been silent at this tick.
ItemDevice(m) == Head(monitor[m].items)[1]
Silence(m) == monitor[m].now - Head(monitor[m].items)[2]

\* The sweep of m emits a device_timeout event for d in this step.
EmitsTimeout(m, d) ==
    /\ emission[m].pc = "idle"
    /\ emission'[m].pc = "loop"
    /\ emission'[m].type = DeviceTimeout
    /\ emission'[m].device_id = d

\* The timeout in units of time.
TimeoutUnits == heartbeat_timeout * UnitsPerSecond

(* C23.  A sweep tick at which a device has been silent for more than the  *)
(* timeout, by no more than a second, emits a device_timeout event for     *)
(* that device: the first tick after the silence crosses the timeout does. *)
C23_FirstTickEmits ==
    [][\A m \in Monitors :
          HandlesItem(m) /\ Silence(m) > TimeoutUnits
                         /\ Silence(m) <= TimeoutUnits + UnitsPerSecond
              => EmitsTimeout(m, ItemDevice(m))]_vars

(* C24.  A device stays timed out: at every sweep tick at which its        *)
(* silence, in whole seconds, exceeds the timeout - be it longer than a    *)
(* day - a device_timeout event is emitted for it, and no step of the      *)
(* sweep changes the heartbeat table.                                       *)
C24_EveryTickEmits ==
    [][\A m \in Monitors :
          /\ HandlesItem(m) /\ Silence(m) \div UnitsPerSecond > heartbeat_timeout
                 => EmitsTimeout(m, ItemDevice(m))
          /\ monitor'[m] # monitor[m] => last_heartbeat' = last_heartbeat]_vars

\* The publisher's callback is invoked for the event of e in this step.
PublisherInvoked(e) ==
    /\ emission[e].pc = "loop"
    /\ emission'[e].pc = "await"
    /\ emission'[e].calls = Append(emission[e].calls, OnCvDataPoint)

\* An emit_event that took the publisher's callback has invoked it when it
\* returns.
PublisherReached ==
    \A e \in Emitters :
        /\ emission[e].pc = "returned"
        /\ emission[e].type = "cv_data_point"
        /\ OnCvDataPoint \in Range(emission[e].callbacks)
        => OnCvDataPoint \in Called(e)

\* The publisher is started: start() has returned and stop() has not been
\* called since.
PublisherStarted == pub_running /\ pub_pc = PubIdle

(* C25.  While the publisher is started, every cv_data_point event of a    *)
(* device D handed to emit_event has, when emit_event returns, added to    *)
(* the published list an entry whose topic is <topic_root>/D/data_point.   *)
C25_EveryDataPointPublished ==
    /\ []PublisherReached
    /\ [][\A e \in Emitters :
             /\ Enters(e) /\ PublisherStarted /\ emission'[e].type = "cv_data_point"
                    => OnCvDataPoint \in Range(emission'[e].callbacks)
             /\ PublisherInvoked(e)
                    => published' =
                           Append(published, Topic(emission[e].device_id, "data_point"))]_vars

(* C26.  Whatever the peer sends, the header reader never takes more than *)
(* 64 KiB, 65,536 bytes, from the connection.                              *)
C26_HeaderWithinCap == header_read.len <= 65536

\* The monitor tasks that are inside the body of their while loop.
InsideLoop ==
    {m \in DOMAIN monitor : monitor[m].pc \in {"items", "scan", "emit", "sleep"}}

(* C27.  Whatever the sequence of start() and stop(), a running manager    *)
(* has at most one monitor task inside its loop, so a silent device gets   *)
(* at most one device_timeout per tick.                                     *)
C27_OneMonitorLoop == running => Cardinality(InsideLoop) <= 1

\* The heartbeat table holds a heartbeat of d that is older than the timeout
\* at the time of the clock.
RecordedOverdue(d) ==
    \E i \in 1..Len(last_heartbeat) :
        /\ last_heartbeat[i][1] = d
        /\ datetime_now - last_heartbeat[i][2] > TimeoutUnits

(* C28.  A device_timeout event is emitted for a device only when the      *)
(* heartbeat recorded for it at that moment is older than the timeout: a   *)
(* heartbeat registered while the sweep awaits the subscribers of another  *)
(* device keeps that sweep from emitting for the device.                    *)
C28_TimeoutOnlyWhenOverdue ==
    [][\A m \in DOMAIN monitor, d \in Devices :
          EmitsTimeout(m, d) => RecordedOverdue(d)]_vars

\* The verdict that follows from the bytes the handler of c received on its
\* own connection and from the checksum its own header declares.
OwnVerdict(c) ==
    IF Hexdigest(delivered[c]) = header[c].checksum THEN "EOF_OK" ELSE "ERR_CHECKSUM\n"

(* C29.  The verdict sent on a connection, EOF_OK or ERR_CHECKSUM, follows *)
(* from the bytes that connection delivered and from the checksum it       *)
(* declared, also while another connection transfers a file of the same    *)
(* name.                                                                    *)
C29_VerdictFromOwnBytes ==
    [][\A c \in Conns :
          (pc[c] = "verify" /\ pc'[c] = "closed") =>
              LastToken(c)' = OwnVerdict(c)]_vars

\* A callback is invoked for the event of e in this step.
InvokesNow(e) == Len(emission'[e].calls) = Len(emission[e].calls) + 1

\* The callback invoked in this step.
InvokedNow(e) == emission'[e].calls[Len(emission'[e].calls)]

\* A step that takes a callback off the list of one type leaves the lists of
\* the other types and the other callbacks of that list as they are.
RemovesOnlyThat ==
    \A t \in AllEventTypes, cb \in Callbacks :
        (cb \in Range(subscribers[t]) /\ cb \notin Range(subscribers'[t])) =>
            /\ \A u \in AllEventTypes \ {t} : subscribers'[u] = subscribers[u]
            /\ subscribers'[t] = SelectSeq(subscribers[t], LAMBDA x : x # cb)

(* C30.  A callback that has been unsubscribed from a type is not invoked  *)
(* for an event of that type any more, not even for an event whose         *)
(* emit_event was in progress when it was unsubscribed: a callback is      *)
(* invoked only while it is subscribed to the type of the event or to the  *)
(* wildcard.  Unsubscribing touches no other subscriber and no other type. *)
C30_UnsubscribedNeverInvoked ==
    [][/\ \A e \in DOMAIN emission :
              InvokesNow(e) => InvokedNow(e) \in SubscribedTo(emission[e].type)
       /\ RemovesOnlyThat]_vars

============================================================================
